---------------------------- MODULE Spec2Model ----------------------------
(***************************************************************************)
(* DocuBridge intake bot (src/main.py): the field-collection wizard, the   *)
(* free-text extractors, the merge engine, the correction commands, the    *)
(* quote and the finalization, for one conversation.                       *)
(*                                                                         *)
(* Texts.  A text is a sequence of tokens separated by single spaces, with *)
(* no leading or trailing blank (so str.strip() changes nothing).  A token *)
(* is [w, up]: w names the lower-case form of the word (Cyrillic words are *)
(* written in Latin transliteration, words that are Latin in the program   *)
(* carry the prefix "lat:", digits and the e-mail are written as they are) *)
(* and up says that the word is capitalised, as str.title() leaves it.     *)
(* Substring tests and regular expressions of the program are computed on  *)
(* the tokens from the tables Contains, Starts and Ends, which list, for   *)
(* the words of Vocabulary, the pattern words they contain, start with and *)
(* end with.                                                               *)
(*                                                                         *)
(* Dictionaries.  A Python dict is a function whose DOMAIN is the set of   *)
(* its keys; an Optional value is a set with at most one element.  The     *)
(* values of pages_a4, weight_grams and _idx are integers and the values   *)
(* of the other keys are texts, on every path of the program.              *)
(***************************************************************************)
EXTENDS Integers, Sequences, FiniteSets, TLC

W(s) == [w |-> s, up |-> FALSE]
T(s) == [w |-> s, up |-> TRUE]

None == {}
Some(v) == {v}
The(o) == CHOOSE x \in o : TRUE

EmptyDict == [k \in {} |-> 0]
Put(d, k, v) == [x \in DOMAIN d \cup {k} |-> IF x = k THEN v ELSE d[x]]
Get(d, k) == IF k \in DOMAIN d THEN Some(d[k]) ELSE None
Max(S) == CHOOSE x \in S : \A y \in S : y <= x
Min(S) == CHOOSE x \in S : \A y \in S : x <= y

(***************************************************************************)
(* The words the model's texts are made of, and what the program's string  *)
(* tests see in them.                                                      *)
(***************************************************************************)
Vocabulary ==
  {"diplom", "ukraina", "rossiya", "belarus", "germaniya", "kiev", "5", "0",
   "20", "123456", "net", "srochnaya", "obychnaya", "srochno", "ivan",
   "+7000000", "a@b.co", "utrom", "str", "g", "izmeni", "dokument",
   "strana-otpravitel", "strana-poluchatel", "iz", "goroda", "v", "gorod",
   "listov", "ves", "srochnost", "skorost", "imya", "telefon", "pochta",
   "vremya", "svyazi", "privet", "lat:ru", "lat:express", "pyat",
   "dvadtsat", "sto", "desyat", "nol", "menya", "zovut", "a", "a@b"}

\* <<word, pattern>>: the pattern is a substring of the word
Contains ==
  {<<"srochnaya", "srochnaya">>, <<"obychnaya", "obychnaya">>,
   <<"srochno", "srochno">>, <<"srochnost", "srochno">>,
   <<"srochnost", "srochnost">>, <<"skorost", "skorost">>,
   <<"lat:express", "lat:express">>, <<"izmeni", "izmen">>,
   <<"dokument", "dokument">>,
   <<"strana-otpravitel", "strana-otpravitel">>,
   <<"strana-poluchatel", "strana-poluchatel">>,
   <<"listov", "listov">>, <<"ves", "ves">>, <<"imya", "imya">>,
   <<"telefon", "telefon">>, <<"pochta", "pochta">>}

\* <<word, pattern>>: the word starts with the pattern
Starts ==
  {<<"germaniya", "g">>, <<"g", "g">>, <<"goroda", "g">>, <<"gorod", "g">>,
   <<"str", "str">>, <<"strana-otpravitel", "str">>,
   <<"strana-poluchatel", "str">>, <<"listov", "list">>,
   <<"listov", "listov">>, <<"goroda", "goroda">>, <<"goroda", "gorod">>,
   <<"gorod", "gorod">>, <<"svyazi", "svyazi">>, <<"vremya", "vremya">>,
   <<"zovut", "zovut">>}

\* <<word, pattern>>: the word ends with the pattern
Ends ==
  {<<"iz", "iz">>, <<"v", "v">>, <<"kiev", "v">>, <<"listov", "v">>,
   <<"gorod", "gorod">>, <<"vremya", "vremya">>, <<"menya", "menya">>}

\* the value of the digit run of a word; a word of Vocabulary has at most
\* one digit run and it ends the word
DigitRun ==
  ("5" :> 5) @@ ("0" :> 0) @@ ("20" :> 20) @@ ("123456" :> 123456)
  @@ ("+7000000" :> 7000000)

\* words without a cased letter: str.title() and str.lower() keep them
Uncased == {"5", "0", "20", "123456", "+7000000"}
\* words of one character
OneChar == {"5", "0", "a", "g", "v"}
\* the longest prefix of a word made of letters and hyphens, where it is not
\* the whole word ("" when the word starts with another character)
LetterPrefix ==
  ("5" :> "") @@ ("0" :> "") @@ ("20" :> "") @@ ("123456" :> "")
  @@ ("+7000000" :> "") @@ ("a@b.co" :> "a") @@ ("a@b" :> "a")
\* the prefix of a word before its first , . ! or ?
NoPunctPrefix == ("a@b.co" :> "a@b")
\* words that start with +380, +7 or +375
PhoneStart == {"+7000000"}
\* words in which \+\d[\d\s\-]{6,} matches (from the start of the word)
PhoneRe == {"+7000000"}
\* words that match ^[^@\s]+@[^@\s]+\.[^@\s]+$
EmailWord == {"a@b.co"}
\* words in which [A-Za-z0-9._%+\-]+@[A-Za-z0-9.\-]+\.[A-Za-z]{2,} matches,
\* with the match
EmailRe == ("a@b.co" :> "a@b.co")

IsLetterWord(w) == w \notin DOMAIN LetterPrefix

Lower(text) == [i \in 1..Len(text) |-> W(text[i].w)]
TitleTok(t) == IF t.w \in Uncased THEN t ELSE T(t.w)
Title(text) == [i \in 1..Len(text) |-> TitleTok(text[i])]

\* pat (a sequence of pattern words, one space between them) is a substring
\* of the lower-cased text
Within(pat, text) ==
  LET n == Len(pat) IN
  \E i \in 1..Len(text) :
    /\ i + n - 1 <= Len(text)
    /\ IF n = 1
         THEN <<text[i].w, pat[1]>> \in Contains
         ELSE /\ \/ <<text[i].w, pat[1]>> \in Ends
                 \/ text[i].w = pat[1]
              /\ \A j \in 2..(n - 1) : text[i + j - 1].w = pat[j]
              /\ \/ <<text[i + n - 1].w, pat[n]>> \in Starts
                 \/ text[i + n - 1].w = pat[n]

(***************************************************************************)
(* The schema.                                                             *)
(***************************************************************************)
COUNTRY_CHOICES == {<<T("ukraina")>>, <<T("rossiya")>>, <<T("belarus")>>}
URGENCY_CHOICES == {<<W("obychnaya")>>, <<W("srochnaya")>>}

FIELDS ==
  << [key |-> "doc_type",     type |-> "text",    choices |-> {}],
     [key |-> "from_country", type |-> "choice",  choices |-> COUNTRY_CHOICES],
     [key |-> "from_city",    type |-> "text",    choices |-> {}],
     [key |-> "to_country",   type |-> "choice",  choices |-> COUNTRY_CHOICES],
     [key |-> "to_city",      type |-> "text",    choices |-> {}],
     [key |-> "pages_a4",     type |-> "int",     choices |-> {}],
     [key |-> "weight_grams", type |-> "int_opt", choices |-> {}],
     [key |-> "urgency",      type |-> "choice",  choices |-> URGENCY_CHOICES],
     [key |-> "name",         type |-> "name",    choices |-> {}],
     [key |-> "phone",        type |-> "phone",   choices |-> {}],
     [key |-> "email",        type |-> "email",   choices |-> {}],
     [key |-> "best_time",    type |-> "text",    choices |-> {}] >>

NFields == Len(FIELDS)
AI_KEYS == {FIELDS[i].key : i \in 1..NFields}
IntKeys == {"pages_a4", "weight_grams", "_idx"}
\* the position of a key in FIELDS, counted from 0 as the program counts
IndexOf(key) == CHOOSE i \in 0..(NFields - 1) : FIELDS[i + 1].key = key

(***************************************************************************)
(* Validators and normalizers.                                             *)
(***************************************************************************)
RUS_NUMS ==
  ("nol" :> 0) @@ ("odin" :> 1) @@ ("dva" :> 2) @@ ("tri" :> 3)
  @@ ("chetyre" :> 4) @@ ("pyat" :> 5) @@ ("shest" :> 6) @@ ("sem" :> 7)
  @@ ("vosem" :> 8) @@ ("devyat" :> 9) @@ ("desyat" :> 10)
  @@ ("odinnadtsat" :> 11) @@ ("dvenadtsat" :> 12) @@ ("trinadtsat" :> 13)
  @@ ("chetyrnadtsat" :> 14) @@ ("pyatnadtsat" :> 15)
  @@ ("shestnadtsat" :> 16) @@ ("semnadtsat" :> 17)
  @@ ("vosemnadtsat" :> 18) @@ ("devyatnadtsat" :> 19)
  @@ ("dvadtsat" :> 20) @@ ("tridtsat" :> 30) @@ ("sorok" :> 40)
  @@ ("pyatdesyat" :> 50) @@ ("shestdesyat" :> 60) @@ ("semdesyat" :> 70)
  @@ ("vosemdesyat" :> 80) @@ ("devyanosto" :> 90) @@ ("sto" :> 100)

\* the loop of parse_int over the tokens: acc = <<total, last, seen>>
RECURSIVE NumWords(_, _, _)
NumWords(text, i, acc) ==
  IF i > Len(text) THEN acc
  ELSE LET t == text[i].w IN
       IF t \notin DOMAIN RUS_NUMS THEN NumWords(text, i + 1, acc)
       ELSE LET val == RUS_NUMS[t] IN
            IF val >= 20 /\ val % 10 = 0
              THEN NumWords(text, i + 1, <<acc[1], val, TRUE>>)
              ELSE IF acc[2] # 0
                     THEN NumWords(text, i + 1, <<acc[1] + acc[2] + val, 0, TRUE>>)
                     ELSE NumWords(text, i + 1, <<acc[1] + val, acc[2], TRUE>>)

\* the first digit run of the text, as an Optional integer
FirstDigits(text) ==
  LET D == {i \in 1..Len(text) : text[i].w \in DOMAIN DigitRun} IN
  IF D = {} THEN None ELSE Some(DigitRun[text[Min(D)].w])

parse_int(text) ==
  IF Len(text) = 0 THEN None
  ELSE IF FirstDigits(text) # None THEN FirstDigits(text)
  ELSE LET r == NumWords(text, 1, <<0, 0, FALSE>>) IN
       IF r[3]
         THEN IF r[1] > 0 THEN Some(r[1])
              ELSE IF r[2] > 0 THEN Some(r[2]) ELSE None
         ELSE None

valid_email(text) == Len(text) = 1 /\ text[1].w \in EmailWord

valid_phone(text) == Len(text) >= 1 /\ text[1].w \in PhoneStart

valid_name(text) ==
  /\ Len(text) >= 1
  /\ \A i \in 1..Len(text) : IsLetterWord(text[i].w)
  /\ Len(text) >= 2 \/ text[1].w \notin OneChar

URGENT == <<W("srochnaya")>>
NORMAL == <<W("obychnaya")>>

URGENCY_SYNONYMS ==
  << [label |-> URGENT,
      words |-> {<<"srochno">>, <<"srochnaya">>, <<"ekspress">>, <<"bystro">>,
                 <<"bystree">>, <<"kak", "mozhno", "bystro">>,
                 <<"kak", "mozhno", "bystree">>, <<"lat:urgent">>,
                 <<"lat:express">>, <<"uskorennaya">>, <<"uskorennyj">>,
                 <<"maksimalno", "bystro">>}],
     [label |-> NORMAL,
      words |-> {<<"obychno">>, <<"obychnaya">>, <<"standart">>,
                 <<"standartnyj">>, <<"bazovyj">>, <<"ne", "bystryj">>,
                 <<"nebystro">>, <<"lat:normal">>, <<"lat:standard">>,
                 <<"bez", "speshki">>}] >>

infer_urgency(text) ==
  LET L == {i \in 1..Len(URGENCY_SYNONYMS) :
              \E ws \in URGENCY_SYNONYMS[i].words : Within(ws, text)} IN
  IF L = {} THEN None ELSE Some(URGENCY_SYNONYMS[Min(L)].label)

\* the number captured by (\d+)\s*(?:u1|u2|...) in the lower-cased text
NumberBefore(units, text) ==
  LET M == {i \in 1..(Len(text) - 1) :
              /\ text[i].w \in DOMAIN DigitRun
              /\ \E u \in units : <<text[i + 1].w, u>> \in Starts} IN
  IF M = {} THEN None ELSE Some(DigitRun[text[Min(M)].w])

heuristic_parse(text) ==
  IF Len(text) = 0 THEN EmptyDict
  ELSE
    LET u  == infer_urgency(text)
        wg == NumberBefore({"g", "gr", "gramm"}, text)
        pg == NumberBefore({"str", "list"}, text)
        o1 == IF u # None THEN Put(EmptyDict, "urgency", The(u)) ELSE EmptyDict
        o2 == IF wg # None THEN Put(o1, "weight_grams", The(wg)) ELSE o1
        o3 == IF pg # None THEN Put(o2, "pages_a4", The(pg)) ELSE o2
    IN IF "pages_a4" \in DOMAIN o3 /\ "weight_grams" \notin DOMAIN o3
            /\ o3["pages_a4"] > 0
         THEN Put(o3, "weight_grams", o3["pages_a4"] * 6)
         ELSE o3

COUNTRY_MAP ==
  ("ukraina" :> <<T("ukraina")>>) @@ ("lat:ukraine" :> <<T("ukraina")>>)
  @@ ("lat:ua" :> <<T("ukraina")>>) @@ ("rossiya" :> <<T("rossiya")>>)
  @@ ("lat:rf" :> <<T("rossiya")>>) @@ ("lat:ru" :> <<T("rossiya")>>)
  @@ ("lat:russia" :> <<T("rossiya")>>) @@ ("belarus" :> <<T("belarus")>>)
  @@ ("rb" :> <<T("belarus")>>) @@ ("lat:by" :> <<T("belarus")>>)
  @@ ("lat:belarus" :> <<T("belarus")>>)

\* x: an Optional text
normalize_country(x) ==
  IF x = None \/ The(x) = <<>> THEN None
  ELSE LET s == The(x) IN
       IF Len(s) = 1 /\ s[1].w \in DOMAIN COUNTRY_MAP
         THEN Some(COUNTRY_MAP[s[1].w])
         ELSE Some(Title(s))

normalize_urgency(x) ==
  IF x = None \/ The(x) = <<>> THEN None
  ELSE LET s == The(x) IN
       IF Len(s) = 1 /\ s[1].w \in {"obychnaya", "lat:standard", "lat:normal",
                                    "bazovyj", "standartnyj"}
         THEN Some(NORMAL)
       ELSE IF Len(s) = 1 /\ s[1].w \in {"srochnaya", "lat:express", "lat:urgent",
                                         "uskorennaya", "uskorennyj", "ekspress"}
         THEN Some(URGENT)
       ELSE None

(***************************************************************************)
(* The model-assisted extractor.  The reply of the language model is any   *)
(* JSON object (ok) or a failure (an exception, a timeout, a reply without *)
(* a JSON object).  A JSON value is [kind |-> "null"], [kind |-> "int", n]   *)
(* (a number, or a string int() accepts) or [kind |-> "str", s] (a string  *)
(* int() rejects).                                                         *)
(***************************************************************************)
JNull == [kind |-> "null", n |-> 0, s |-> <<>>]
JInt(n) == [kind |-> "int", n |-> n, s |-> <<>>]
JStr(s) == [kind |-> "str", n |-> 0, s |-> s]
LMFail == [ok |-> FALSE, json |-> EmptyDict]
LMReply(json) == [ok |-> TRUE, json |-> json]

\* int(v), as an Optional: None where int raises; a string is converted when
\* it is one word that reads as a whole number
IntOf(v) ==
  IF v.kind = "int" THEN Some(v.n)
  ELSE IF Len(v.s) = 1 /\ v.s[1].w \in DOMAIN DigitRun
    THEN Some(DigitRun[v.s[1].w])
  ELSE None

\* str(v)
StrOf(v) ==
  IF v.kind = "str" THEN v.s
  ELSE <<W(CHOOSE w \in DOMAIN DigitRun \ PhoneStart : DigitRun[w] = v.n)>>

\* one iteration of the loop over data.items(), for key k
CleanOne(data, k) ==
  LET v == data[k] IN
  IF k \notin AI_KEYS \/ v.kind = "null" THEN None
  ELSE IF k \in {"pages_a4", "weight_grams"}
    THEN LET iv == IntOf(v) IN
         IF iv # None /\ The(iv) >= 0 THEN iv ELSE None
  ELSE IF k \in {"from_country", "to_country"}
    THEN normalize_country(Some(StrOf(v)))
  ELSE IF k = "urgency"
    THEN normalize_urgency(Some(StrOf(v)))
  ELSE IF StrOf(v) # <<>> THEN Some(StrOf(v)) ELSE None

ai_understand(client, resp) ==
  IF ~client THEN EmptyDict
  ELSE IF ~resp.ok THEN EmptyDict
  ELSE
    LET K0 == {k \in DOMAIN resp.json : CleanOne(resp.json, k) # None}
        c0 == [k \in K0 |-> The(CleanOne(resp.json, k))]
        K1 == {k \in K0 :
                 /\ k = "phone" => valid_phone(c0[k])
                 /\ k = "email" => valid_email(c0[k])
                 /\ k = "name"  => valid_name(c0[k])}
        c1 == [k \in K1 |-> c0[k]]
    IN IF /\ "pages_a4" \in K1
          /\ "weight_grams" \notin K1 \/ c1["weight_grams"] = 0
          /\ c1["pages_a4"] > 0
         THEN Put(c1, "weight_grams", c1["pages_a4"] * 6)
         ELSE c1

(***************************************************************************)
(* The merge engine.                                                       *)
(***************************************************************************)
\* value: the Optional data.get(k)
is_filled(field, value) ==
  IF value = None THEN FALSE
  ELSE LET v == The(value)
           t == field.type IN
    CASE t = "text"    -> Len(v) >= 1
      [] t = "choice"  -> v \in field.choices
      [] t = "int"     -> v > 0
      [] t = "int_opt" -> v >= 0
      [] t = "phone"   -> valid_phone(v)
      [] t = "email"   -> valid_email(v)
      [] t = "name"    -> valid_name(v)
      [] OTHER         -> FALSE

first_missing_index(data) ==
  LET M == {i \in 0..(NFields - 1) :
              ~is_filled(FIELDS[i + 1], Get(data, FIELDS[i + 1].key))} IN
  IF M = {} THEN NFields ELSE Min(M)

\* merged.get(k) in (None, "", 0) or k not in merged
Blank(d, k) ==
  \/ k \notin DOMAIN d
  \/ IF k \in IntKeys THEN d[k] = 0 ELSE d[k] = <<>>

\* a merge in which the extracted value always wins
merge_overwrite(existing, parsed) ==
  LET merged == [k \in DOMAIN existing \cup (AI_KEYS \cap DOMAIN parsed) |->
                   IF k \in AI_KEYS /\ k \in DOMAIN parsed
                     THEN parsed[k] ELSE existing[k]]
  IN IF /\ ~Blank(merged, "pages_a4")
        /\ Blank(merged, "weight_grams")
        /\ merged["pages_a4"] > 0
       THEN Put(merged, "weight_grams", merged["pages_a4"] * 6)
       ELSE merged

\* a merge that derives the weight from the pages whatever the weight is
merge_rederive(existing, parsed) ==
  LET merged == [k \in DOMAIN existing \cup (AI_KEYS \cap DOMAIN parsed) |->
                   IF k \in AI_KEYS /\ k \in DOMAIN parsed /\ Blank(existing, k)
                     THEN parsed[k] ELSE existing[k]]
  IN IF ~Blank(merged, "pages_a4") /\ merged["pages_a4"] > 0
       THEN Put(merged, "weight_grams", merged["pages_a4"] * 6)
       ELSE merged

merge_ai_data(existing, parsed) ==
  LET merged == [k \in DOMAIN existing \cup (AI_KEYS \cap DOMAIN parsed) |->
                   IF k \in AI_KEYS /\ k \in DOMAIN parsed /\ Blank(existing, k)
                     THEN parsed[k] ELSE existing[k]]
  IN IF /\ ~Blank(merged, "pages_a4")
        /\ Blank(merged, "weight_grams")
        /\ merged["pages_a4"] > 0
       THEN Put(merged, "weight_grams", merged["pages_a4"] * 6)
       ELSE merged

(***************************************************************************)
(* Correction commands.                                                    *)
(***************************************************************************)
FIELD_ALIASES ==
  [doc_type     |-> {<<"tip", "dokumenta">>, <<"dokument">>, <<"vid", "dokumenta">>},
   from_country |-> {<<"strana", "otpravki">>, <<"strana", "otkuda">>,
                     <<"iz", "strany">>, <<"strana-otpravitel">>},
   from_city    |-> {<<"gorod", "otpravki">>, <<"gorod", "otkuda">>, <<"iz", "goroda">>},
   to_country   |-> {<<"strana", "dostavki">>, <<"strana", "naznacheniya">>,
                     <<"v", "stranu">>, <<"strana-poluchatel">>},
   to_city      |-> {<<"gorod", "dostavki">>, <<"gorod", "naznacheniya">>, <<"v", "gorod">>},
   pages_a4     |-> {<<"stranitsy">>, <<"stranits">>, <<"listov">>, <<"listy">>,
                     <<"kolichestvo", "stranits">>, <<"kol-vo", "listov">>, <<"a4">>},
   weight_grams |-> {<<"ves">>, <<"massa">>, <<"gramm">>, <<"grammy">>},
   urgency      |-> {<<"srochnost">>, <<"skorost">>, <<"rezhim", "dostavki">>},
   name         |-> {<<"imya">>, <<"familiya">>, <<"kak", "obraschatsya">>},
   phone        |-> {<<"telefon">>, <<"nomer">>, <<"kontakt">>},
   email        |-> {<<"pochta">>, <<"lat:email">>, <<"lat:e-mail">>,
                     <<"elektronnaya", "pochta">>},
   best_time    |-> {<<"vremya", "svyazi">>, <<"kogda", "svyazatsya">>,
                     <<"luchshee", "vremya">>}]

\* the first key, in the order of FIELD_ALIASES (which is the order of
\* FIELDS), one of whose aliases occurs in the text
alias_to_key(text) ==
  LET M == {i \in 0..(NFields - 1) :
              \E a \in FIELD_ALIASES[FIELDS[i + 1].key] : Within(a, text)} IN
  IF M = {} THEN None ELSE Some(FIELDS[Min(M) + 1].key)

\* the positions i where a word ends with one of kws and another word follows
After(kws, text) ==
  {i \in 1..(Len(text) - 1) : \E kw \in kws : <<text[i].w, kw>> \in Ends}

\* (?:iz|v|vo)\s+([letters and hyphens]+): group 1 of the leftmost match
CountryCand(text) ==
  LET M == {i \in After({"iz", "v", "vo"}, text) :
              IsLetterWord(text[i + 1].w) \/ LetterPrefix[text[i + 1].w] # ""} IN
  IF M = {} THEN None
  ELSE LET t == text[Min(M) + 1] IN
       IF IsLetterWord(t.w) THEN Some(<<t>>)
       ELSE Some(<<[w |-> LetterPrefix[t.w], up |-> t.up]>>)

\* the longest run of letters, hyphens and blanks that starts at word i:
\* the words i..j-1 and the letter prefix of word j
RECURSIVE LetterRunEnd(_, _)
LetterRunEnd(text, j) ==
  IF j > Len(text) \/ ~IsLetterWord(text[j].w) THEN j
  ELSE LetterRunEnd(text, j + 1)

\* the run, stripped: an Optional text; None when it has less than 2 characters
LetterRun(text, i) ==
  LET j == LetterRunEnd(text, i)
      whole == SubSeq(text, i, j - 1)
      part  == IF j <= Len(text) /\ LetterPrefix[text[j].w] # ""
                 THEN <<[w |-> LetterPrefix[text[j].w], up |-> text[j].up]>>
                 ELSE <<>>
      run   == whole \o part
  IN IF run = <<>> THEN None
     ELSE IF Len(run) = 1 /\ run[1].w \in OneChar /\ (part # <<>> \/ j > Len(text))
       THEN None
     ELSE Some(run)

\* (?:gorod|v|iz)\s+([letters, hyphens and blanks]{2,}): group 1, stripped
CityCand(text) ==
  LET M == {i \in After({"gorod", "v", "iz"}, text) : LetterRun(text, i + 1) # None} IN
  IF M = {} THEN None ELSE LetterRun(text, Min(M) + 1)

\* (\+\d[\d\s\-]{6,}) with the blanks removed; in the texts of the model no
\* word of digits follows a telephone number
PhoneCand(text) ==
  LET M == {i \in 1..Len(text) : text[i].w \in PhoneRe} IN
  IF M = {} THEN None ELSE Some(<<text[Min(M)]>>)

EmailCand(text) ==
  LET M == {i \in 1..Len(text) : text[i].w \in DOMAIN EmailRe} IN
  IF M = {} THEN None
  ELSE Some(<<[w |-> EmailRe[text[Min(M)].w], up |-> text[Min(M)].up]>>)

\* (?:menya zovut|mo[e]j imya|ya\s*[-]\s*)(.+): group 1, stripped; no word of
\* Vocabulary matches the second and the third alternative
NameCand(text) ==
  LET M == {i \in 1..(Len(text) - 2) :
              text[i].w = "menya" /\ text[i + 1].w = "zovut"} IN
  IF M = {} THEN None ELSE Some(SubSeq(text, Min(M) + 2, Len(text)))

\* the words up to the first , . ! or ?
RECURSIVE NoPunctRun(_, _)
NoPunctRun(text, i) ==
  IF i > Len(text) THEN <<>>
  ELSE IF text[i].w \in DOMAIN NoPunctPrefix
    THEN <<[w |-> NoPunctPrefix[text[i].w], up |-> text[i].up]>>
  ELSE <<text[i]>> \o NoPunctRun(text, i + 1)

\* (posle|do|v)\s+[^,.!?]+: group 0 of the leftmost match
TimeCand(text) ==
  LET kws == {"posle", "do", "v"}
      M == After(kws, text) IN
  IF M = {} THEN None
  ELSE LET i  == Min(M)
           kw == CHOOSE k \in kws : <<text[i].w, k>> \in Ends
           head == IF text[i].w = kw THEN text[i] ELSE W(kw)
       IN Some(<<head>> \o NoPunctRun(text, i + 1))

\* len(s) >= 2
AtLeastTwoChars(text) ==
  Len(text) >= 2 \/ (Len(text) = 1 /\ text[1].w \notin OneChar)

try_extract_value_for_key(key, text) ==
  IF key = "urgency" THEN infer_urgency(text)
  ELSE IF key \in {"pages_a4", "weight_grams"} THEN FirstDigits(text)
  ELSE IF key \in {"from_country", "to_country"}
    THEN normalize_country(IF CountryCand(text) # None THEN CountryCand(text)
                           ELSE Some(text))
  ELSE IF key \in {"from_city", "to_city"}
    THEN IF CityCand(text) # None THEN Some(Title(The(CityCand(text)))) ELSE None
  ELSE IF key = "phone"
    THEN IF PhoneCand(text) # None /\ valid_phone(The(PhoneCand(text)))
           THEN PhoneCand(text) ELSE None
  ELSE IF key = "email"
    THEN IF EmailCand(text) # None /\ valid_email(The(EmailCand(text)))
           THEN EmailCand(text) ELSE None
  ELSE IF key = "name"
    THEN IF NameCand(text) # None /\ valid_name(The(NameCand(text)))
           THEN NameCand(text) ELSE None
  ELSE IF key = "best_time"
    THEN IF TimeCand(text) # None THEN TimeCand(text) ELSE Some(text)
  ELSE IF key = "doc_type"
    THEN IF AtLeastTwoChars(text) THEN Some(text) ELSE None
  ELSE None

TRIGGERS ==
  {<<"verni">>, <<"vernut">>, <<"vernis">>, <<"isprav">>, <<"poprav">>,
   <<"izmen">>, <<"pomenya">>, <<"korrekt">>}

\* [key, val]: two Optionals
detect_jump_or_edit(text) ==
  IF Len(text) = 0 THEN [key |-> None, val |-> None]
  ELSE IF \E w \in TRIGGERS : Within(w, text)
    THEN LET key == alias_to_key(text) IN
         IF key = None THEN [key |-> None, val |-> None]
         ELSE [key |-> key, val |-> try_extract_value_for_key(The(key), text)]
  ELSE [key |-> None, val |-> None]

(***************************************************************************)
(* Pricing and delivery time.                                              *)
(***************************************************************************)
PRICING ==
  [obychnaya |-> << <<50, 65>>, <<100, 85>> >>,
   srochnaya |-> << <<50, 110>>, <<100, 130>> >>]

\* a price list whose last band has no upper limit
base_price_open(weight, tariff_table) ==
  LET M == {i \in 1..Len(tariff_table) : weight <= tariff_table[i][1]}
      n == IF M = {} THEN Len(tariff_table) ELSE Min(M) IN
  [price |-> Some(tariff_table[n][2]), thr |-> Some(tariff_table[n][1])]

\* [price, thr]: two Optionals
base_price(weight, tariff_table) ==
  LET M == {i \in 1..Len(tariff_table) : weight <= tariff_table[i][1]} IN
  IF M = {} THEN [price |-> None, thr |-> None]
  ELSE [price |-> Some(tariff_table[Min(M)][2]),
        thr   |-> Some(tariff_table[Min(M)][1])]

\* the range of working days, as an Optional string
eta_working_days(from_country, to_country) ==
  LET fc == Title(from_country)
      tc == Title(to_country) IN
  IF fc = <<T("ukraina")>> /\ tc = <<T("rossiya")>> THEN Some("27-29")
  ELSE IF fc = <<T("ukraina")>> /\ tc = <<T("belarus")>> THEN Some("21-23")
  ELSE None

\* d.get(k) or dflt
GetOr(d, k, dflt) == IF Blank(d, k) THEN dflt ELSE d[k]

\* a quote that estimates a missing weight from the page count
compute_quote_pages(d) ==
  LET fc == Title(GetOr(d, "from_country", <<>>))
      tc == Title(GetOr(d, "to_country", <<>>))
      w  == IF Blank(d, "weight_grams") THEN 6 * GetOr(d, "pages_a4", 0)
            ELSE d["weight_grams"]
      u0 == Lower(GetOr(d, "urgency", NORMAL))
      urgency == IF Len(u0) = 1 /\ u0[1].w \in DOMAIN PRICING THEN u0 ELSE NORMAL
      bp == base_price(w, PRICING[urgency[1].w])
      eta_work == eta_working_days(fc, tc)
  IN IF w = 0 \/ bp.price = None
       THEN [price_eur |-> None, threshold_g |-> None, eta_working |-> eta_work,
             notes |-> Some("manual"), urgency |-> urgency]
       ELSE [price_eur |-> bp.price, threshold_g |-> bp.thr,
             eta_working |-> eta_work,
             notes |-> IF urgency = URGENT THEN Some("expedited") ELSE None,
             urgency |-> urgency]

compute_quote(d) ==
  LET fc == Title(GetOr(d, "from_country", <<>>))
      tc == Title(GetOr(d, "to_country", <<>>))
      w  == GetOr(d, "weight_grams", 0)
      u0 == Lower(GetOr(d, "urgency", NORMAL))
      urgency == IF Len(u0) = 1 /\ u0[1].w \in DOMAIN PRICING THEN u0 ELSE NORMAL
      bp == base_price(w, PRICING[urgency[1].w])
      eta_work == eta_working_days(fc, tc)
  IN IF w = 0 \/ bp.price = None
       THEN [price_eur |-> None, threshold_g |-> None, eta_working |-> eta_work,
             notes |-> Some("manual"), urgency |-> urgency]
       ELSE [price_eur |-> bp.price, threshold_g |-> bp.thr,
             eta_working |-> eta_work,
             notes |-> IF urgency = URGENT THEN Some("expedited") ELSE None,
             urgency |-> urgency]

(***************************************************************************)
(* Storage: the row of table user_state for the conversation, as           *)
(* [row, state, data].  Each operation takes ok: whether it got a          *)
(* connection and its statement ran.  json.dumps and the JSONB column give *)
(* back the dictionary that was written (string keys, integer and string   *)
(* values).                                                                *)
(***************************************************************************)
NoRow == [row |-> FALSE, state |-> "greeting", data |-> EmptyDict]

get_state(db, ok) ==
  IF ok /\ db.row THEN [state |-> db.state, data |-> db.data]
  ELSE [state |-> "greeting", data |-> EmptyDict]

\* a set_state that keeps the stored data when it is given none
set_state_coalesce(db, ok, state, data) ==
  IF ok
    THEN [row |-> TRUE, state |-> state,
          data |-> IF data = EmptyDict THEN db.data ELSE data]
    ELSE db

\* a set_state that adds the data it is given to the stored data
set_state_merge(db, ok, state, data) ==
  IF ok
    THEN [row |-> TRUE, state |-> state,
          data |-> [k \in DOMAIN db.data \cup DOMAIN data |->
                      IF k \in DOMAIN data THEN data[k] ELSE db.data[k]]]
    ELSE db

set_state(db, ok, state, data) ==
  IF ok THEN [row |-> TRUE, state |-> state, data |-> data] ELSE db

update_data(db, ok, new_data) ==
  IF ok /\ db.row THEN [db EXCEPT !.data = new_data] ELSE db

\* the outcomes of the storage calls of one turn
AllOk == [get |-> TRUE, upd |-> TRUE, set |-> TRUE, ins |-> TRUE]

(***************************************************************************)
(* The effects of one turn, in the order the handler produces them:        *)
(*   [e |-> "history"]                  a row added to chat_history        *)
(*   [e |-> "send", to, msg]            a message sent to a chat           *)
(*   [e |-> "extract", parsed]          the extractor returned parsed      *)
(*   [e |-> "finalize", data]           finalize_form was entered          *)
(*   [e |-> "lead", chat, payload]      a row added to table leads         *)
(*   [e |-> "quote", quote]             finalize_form computed the quote   *)
(*   [e |-> "notify"]                   notify_admin_lead was called       *)
(*   [e |-> "state", state]             set_state was called               *)
(*   [e |-> "get_state", row]           get_state returned the row         *)
(***************************************************************************)
Chats == {1, 2}
\* the conversation of the model
chat_id == Min(Chats)

History == [e |-> "history"]
Send(to, msg) == [e |-> "send", to |-> to, msg |-> msg]
Ask(idx) == [t |-> "ask", idx |-> idx]
Note(t) == [t |-> t]

\* ask(chat_id, idx, data)
ask(idx) == <<History, Send(chat_id, Ask(idx))>>

\* the two lines notify_admin_lead derives from the quote
AdminCard(q) ==
  [t |-> "lead_card",
   price |-> q.price_eur,
   eta |-> IF q.eta_working # None THEN q.eta_working ELSE Some("confirm_route"),
   note |-> q.notes]

\* a notification that is sent whatever the configuration
notify_always(ADMIN_CHAT_ID, source_chat_id, payload) ==
  <<Send(ADMIN_CHAT_ID, AdminCard(compute_quote(payload)))>>

\* a notification that shows the card in the conversation of the lead
notify_source(ADMIN_CHAT_ID, source_chat_id, payload) ==
  IF ADMIN_CHAT_ID = 0 THEN <<>>
  ELSE <<Send(source_chat_id, AdminCard(compute_quote(payload)))>>

notify_admin_lead(ADMIN_CHAT_ID, source_chat_id, payload) ==
  IF ADMIN_CHAT_ID = 0 THEN <<>>
  ELSE IF ADMIN_CHAT_ID = source_chat_id THEN <<>>
  ELSE <<Send(ADMIN_CHAT_ID, AdminCard(compute_quote(payload)))>>

\* the price line and the delivery-time line of the user's confirmation
UserReply(quote) ==
  [t |-> "final",
   price |-> quote.price_eur,
   eta |-> IF quote.urgency = URGENT THEN Some("expedited")
           ELSE IF quote.eta_working # None THEN quote.eta_working
           ELSE Some("confirm_route"),
   note |-> quote.notes]

\* a finalization that marks the conversation completed before it notifies
\* and confirms
finalize_form_statefirst(cfg, db, data, f) ==
  [db  |-> set_state(db, f.set, "completed", EmptyDict),
   log |-> <<[e |-> "finalize", data |-> data]>>
           \o (IF f.ins THEN <<[e |-> "lead", chat |-> chat_id, payload |-> data]>>
                ELSE <<>>)
           \o <<[e |-> "state", state |-> "completed"],
                [e |-> "quote", quote |-> compute_quote(data)], [e |-> "notify"]>>
           \o notify_admin_lead(cfg.ADMIN_CHAT_ID, chat_id, data)
           \o <<History, Send(chat_id, UserReply(compute_quote(data)))>>]

\* a finalization that gives up when the lead cannot be inserted
finalize_form_abort(cfg, db, data, f) ==
  IF f.ins
    THEN [db  |-> set_state(db, f.set, "completed", EmptyDict),
          log |-> <<[e |-> "finalize", data |-> data],
                    [e |-> "lead", chat |-> chat_id, payload |-> data],
                    [e |-> "quote", quote |-> compute_quote(data)],
                    [e |-> "notify"]>>
                  \o notify_admin_lead(cfg.ADMIN_CHAT_ID, chat_id, data)
                  \o <<History, Send(chat_id, UserReply(compute_quote(data))),
                       [e |-> "state", state |-> "completed"]>>]
    ELSE [db  |-> db,
          log |-> <<[e |-> "finalize", data |-> data],
                    Send(chat_id, Note("ai_pause"))>>]

\* a finalization that keeps the lead data in the completed row
finalize_form_keep(cfg, db, data, f) ==
  LET quote == compute_quote(data) IN
  [db  |-> set_state(db, f.set, "completed", data),
   log |-> <<[e |-> "finalize", data |-> data]>>
           \o (IF f.ins THEN <<[e |-> "lead", chat |-> chat_id, payload |-> data]>>
               ELSE <<>>)
           \o <<[e |-> "quote", quote |-> quote], [e |-> "notify"]>>
           \o notify_admin_lead(cfg.ADMIN_CHAT_ID, chat_id, data)
           \o <<History, Send(chat_id, UserReply(quote)),
                [e |-> "state", state |-> "completed"]>>]

\* returns the row of user_state and the effects
finalize_form(cfg, db, data, f) ==
  LET quote == compute_quote(data) IN
  [db  |-> set_state(db, f.set, "completed", EmptyDict),
   log |-> <<[e |-> "finalize", data |-> data]>>
           \o (IF f.ins THEN <<[e |-> "lead", chat |-> chat_id, payload |-> data]>>
               ELSE <<>>)
           \o <<[e |-> "quote", quote |-> quote], [e |-> "notify"]>>
           \o notify_admin_lead(cfg.ADMIN_CHAT_ID, chat_id, data)
           \o <<History, Send(chat_id, UserReply(quote)),
                [e |-> "state", state |-> "completed"]>>]

\* ai_reply: which of its three texts comes back
ai_reply(cfg, chat_ok) ==
  IF ~cfg.client THEN Note("ai_unavailable")
  ELSE IF chat_ok THEN Note("ai_answer") ELSE Note("ai_pause")

\* a or b: the first of the two dictionaries that is not empty
OrElse(a, b) == IF a # EmptyDict THEN a ELSE b

\* heuristic_parse(text) or ai_understand(text)
Extract(cfg, text, lm) ==
  OrElse(heuristic_parse(text), ai_understand(cfg.client, lm))

\* the outcome r of a branch, with the events ev before its own
Then(ev, r) == [db |-> r.db, log |-> ev \o r.log]

\* the value the strict step accepts for the field, as an Optional (None:
\* the answer is rejected with the error text of the field's type)
StrictValue(field, text) ==
  LET t == field.type IN
  CASE t = "text" -> IF Len(text) >= 1 THEN Some(text) ELSE None
    [] t = "choice" ->
         LET syn == IF field.key = "urgency" THEN infer_urgency(text) ELSE None
             s_norm == IF syn # None THEN The(syn) ELSE Lower(text)
             C == {c \in field.choices : Lower(c) = s_norm}
         IN IF C = {} THEN None ELSE Some(The(C))
    [] t = "int" ->
         LET n == parse_int(text) IN
         IF n # None /\ The(n) > 0 THEN n ELSE None
    [] t = "int_opt" ->
         IF Lower(text) \in {<<W("net")>>, <<W("ne"), W("znayu")>>,
                             <<W("lat:unknown")>>, <<W("netu")>>, <<W("-")>>}
           THEN Some(0)
           ELSE LET n == parse_int(text) IN
                IF n = None \/ The(n) < 0 THEN None ELSE n
    [] t = "phone" -> IF valid_phone(text) THEN Some(text) ELSE None
    [] t = "email" -> IF valid_email(text) THEN Some(text) ELSE None
    [] t = "name"  -> IF valid_name(text) THEN Some(text) ELSE None
    [] OTHER -> None

\* a correction that leaves a value the field already holds
OnJump_noclobber(cfg, db, data, jump_key, new_val, f) ==
  LET d2  == IF new_val = None THEN data
             ELSE merge_ai_data(data, Put(EmptyDict, jump_key, The(new_val)))
      idx == IF new_val = None THEN IndexOf(jump_key)
             ELSE first_missing_index(d2)
  IN IF idx >= NFields
       THEN finalize_form(cfg, update_data(db, f.upd, d2), d2, f)
       ELSE [db  |-> set_state(db, f.set, "collecting", Put(d2, "_idx", idx)),
             log |-> <<[e |-> "state", state |-> "collecting"],
                       Send(chat_id, Note("jump_ok"))>> \o ask(idx)]

\* handle_answer, the branch of a correction command
OnJump(cfg, db, data, jump_key, new_val, f) ==
  IF new_val # None
    THEN LET v  == The(new_val)
             d1 == Put(data, jump_key, v)
             d2 == IF jump_key = "pages_a4" /\ GetOr(d1, "weight_grams", 0) = 0
                      /\ v > 0
                     THEN Put(d1, "weight_grams", v * 6) ELSE d1
             db1 == update_data(db, f.upd, d2)
             idx == first_missing_index(d2)
         IN IF idx >= NFields
              THEN finalize_form(cfg, db1, d2, f)
              ELSE [db  |-> set_state(db1, f.set, "collecting", Put(d2, "_idx", idx)),
                    log |-> <<[e |-> "state", state |-> "collecting"],
                              Send(chat_id, Note("jump_ok"))>> \o ask(idx)]
    ELSE LET idx == IndexOf(jump_key) IN
         [db  |-> set_state(db, f.set, "collecting", Put(data, "_idx", idx)),
          log |-> <<[e |-> "state", state |-> "collecting"],
                    Send(chat_id, Note("jump_ok"))>> \o ask(idx)]

\* handle_answer outside the wizard, the lead data of the extraction
OnUnderstood(cfg, db, data, idx, f) ==
  IF idx >= NFields
    THEN finalize_form(cfg, db, data, f)
    ELSE [db  |-> set_state(db, f.set, "collecting", Put(data, "_idx", idx)),
          log |-> <<[e |-> "state", state |-> "collecting"],
                    Send(chat_id, Note("understood"))>> \o ask(idx)]

\* a turn outside the wizard that ends without a reply when nothing is
\* extracted
OnParsed_silent(cfg, db, parsed, data, chat_ok, f) ==
  IF parsed # EmptyDict
    THEN Then(<<[e |-> "extract", parsed |-> parsed]>>,
              OnUnderstood(cfg, db, data, first_missing_index(data), f))
    ELSE [db |-> db, log |-> <<History>>]

\* handle_answer outside the wizard, the extraction made
OnParsed(cfg, db, parsed, data, chat_ok, f) ==
  IF parsed # EmptyDict
    THEN Then(<<[e |-> "extract", parsed |-> parsed]>>,
              OnUnderstood(cfg, db, data, first_missing_index(data), f))
    ELSE [db  |-> db,
          log |-> <<History, Send(chat_id, ai_reply(cfg, chat_ok))>>]

\* handle_answer outside the wizard
OnIdle(cfg, db, text, lm, chat_ok, f) ==
  OnParsed(cfg, db, Extract(cfg, text, lm),
           merge_ai_data(EmptyDict, Extract(cfg, text, lm)), chat_ok, f)

\* a strict step that moves on from a rejected answer
OnStrict_advance(cfg, db, data, text, f) ==
  LET i0    == GetOr(data, "_idx", 0)
      idx   == IF i0 < 0 \/ i0 >= NFields THEN 0 ELSE i0
      field == FIELDS[idx + 1]
      val   == StrictValue(field, text)
      d1    == IF val = None THEN data ELSE Put(data, field.key, The(val))
  IN IF idx + 1 < NFields
       THEN [db  |-> update_data(db, f.upd, Put(d1, "_idx", idx + 1)),
             log |-> (IF val = None
                        THEN <<History,
                               Send(chat_id, [t |-> "error", type |-> field.type])>>
                        ELSE <<Send(chat_id, Note("accepted"))>>)
                     \o ask(idx + 1)]
       ELSE finalize_form(cfg, db, d1, f)

\* a strict step that keeps only the answer it has just accepted
OnStrict_forget(cfg, db, data, text, f) ==
  LET i0    == GetOr(data, "_idx", 0)
      idx   == IF i0 < 0 \/ i0 >= NFields THEN 0 ELSE i0
      field == FIELDS[idx + 1]
      val   == StrictValue(field, text)
  IN IF val = None
       THEN [db  |-> db,
             log |-> <<History, Send(chat_id, [t |-> "error", type |-> field.type])>>
                     \o ask(idx)]
       ELSE LET d1 == Put(EmptyDict, field.key, The(val)) IN
            IF idx + 1 < NFields
              THEN [db  |-> update_data(db, f.upd, Put(d1, "_idx", idx + 1)),
                    log |-> <<Send(chat_id, Note("accepted"))>> \o ask(idx + 1)]
              ELSE finalize_form(cfg, db, d1, f)

\* a strict step that stores the answer it accepts and stays on its field
OnStrict_stay(cfg, db, data, text, f) ==
  LET i0    == GetOr(data, "_idx", 0)
      idx   == IF i0 < 0 \/ i0 >= NFields THEN 0 ELSE i0
      field == FIELDS[idx + 1]
      val   == StrictValue(field, text)
  IN IF val = None
       THEN [db  |-> db,
             log |-> <<History, Send(chat_id, [t |-> "error", type |-> field.type])>>
                     \o ask(idx)]
       ELSE [db  |-> update_data(db, f.upd,
                                 Put(Put(data, field.key, The(val)), "_idx", idx)),
             log |-> <<Send(chat_id, Note("accepted"))>> \o ask(idx)]

\* a strict step that moves past the last field without finalizing
OnStrict_past(cfg, db, data, text, f) ==
  LET i0    == GetOr(data, "_idx", 0)
      idx   == IF i0 < 0 \/ i0 >= NFields THEN 0 ELSE i0
      field == FIELDS[idx + 1]
      val   == StrictValue(field, text)
  IN IF val = None
       THEN [db  |-> db,
             log |-> <<History, Send(chat_id, [t |-> "error", type |-> field.type])>>
                     \o ask(idx)]
       ELSE [db  |-> update_data(db, f.upd,
                                 Put(Put(data, field.key, The(val)), "_idx", idx + 1)),
             log |-> <<Send(chat_id, Note("accepted"))>> \o ask(idx + 1)]

\* handle_answer in the wizard, the strict validation of the expected field
OnStrict(cfg, db, data, text, f) ==
  LET i0    == GetOr(data, "_idx", 0)
      idx   == IF i0 < 0 \/ i0 >= NFields THEN 0 ELSE i0
      field == FIELDS[idx + 1]
      val   == StrictValue(field, text)
  IN IF val = None
       THEN [db  |-> db,
             log |-> <<History, Send(chat_id, [t |-> "error", type |-> field.type])>>
                     \o ask(idx)]
       ELSE LET d1 == Put(data, field.key, The(val))
                d2 == IF field.key = "pages_a4" /\ The(val) > 0
                         /\ GetOr(d1, "weight_grams", 0) = 0
                        THEN Put(d1, "weight_grams", The(val) * 6) ELSE d1
            IN IF idx + 1 < NFields
                 THEN [db  |-> update_data(db, f.upd, Put(d2, "_idx", idx + 1)),
                       log |-> <<Send(chat_id, Note("accepted"))>> \o ask(idx + 1)]
                 ELSE finalize_form(cfg, db, d2, f)

\* a wizard turn that never consults the extractor
OnCollecting_noextract(cfg, db, data, text, lm, f) ==
  OnStrict(cfg, db, data, text, f)

\* a merge that moves the cursor past the first missing field
OnMerged_skip(cfg, db, merged, idx, f) ==
  IF idx >= NFields
    THEN finalize_form(cfg, db, merged, f)
    ELSE [db  |-> update_data(db, f.upd,
                              Put(merged, "_idx", Min({idx + 1, NFields - 1}))),
          log |-> <<Send(chat_id, Note("accepted_more"))>> \o ask(idx)]

\* handle_answer in the wizard, the extraction merged
OnMerged(cfg, db, merged, idx, f) ==
  IF idx >= NFields
    THEN finalize_form(cfg, db, merged, f)
    ELSE [db  |-> update_data(db, f.upd, Put(merged, "_idx", idx)),
          log |-> <<Send(chat_id, Note("accepted_more"))>> \o ask(idx)]

\* handle_answer in the wizard, the extraction made
OnTried(cfg, db, data, text, ai_try, merged, f) ==
  Then(IF ai_try # EmptyDict
         THEN <<[e |-> "extract", parsed |-> ai_try]>> ELSE <<>>,
       IF ai_try # EmptyDict /\ merged # data
         THEN OnMerged(cfg, db, merged, first_missing_index(merged), f)
         ELSE OnStrict(cfg, db, data, text, f))

\* handle_answer in the wizard
OnCollecting(cfg, db, data, text, lm, f) ==
  OnTried(cfg, db, data, text, Extract(cfg, text, lm),
          merge_ai_data(data, Extract(cfg, text, lm)), f)

\* handle_answer, the row read and the correction detected
OnRow(cfg, db, st, j, text, lm, chat_ok, f) ==
  Then(<<[e |-> "get_state", row |-> st], History>>,
       IF j.key # None
         THEN OnJump(cfg, db, st.data, The(j.key), j.val, f)
       ELSE IF st.state # "collecting"
         THEN OnIdle(cfg, db, text, lm, chat_ok, f)
       ELSE OnCollecting(cfg, db, st.data, text, lm, f))

handle_answer(cfg, db, text, lm, chat_ok, f) ==
  OnRow(cfg, db, get_state(db, f.get), detect_jump_or_edit(text),
        text, lm, chat_ok, f)

(***************************************************************************)
(* The inputs of the model.                                                *)
(***************************************************************************)
\* the answers a user gives to the question for field idx: some that the
\* field accepts and some that it rejects
Answers ==
  << {<<W("diplom")>>},
     {<<T("ukraina")>>, <<T("kiev")>>},
     {<<T("kiev")>>},
     {<<T("rossiya")>>},
     {<<T("kiev")>>},
     {<<W("5")>>, <<W("diplom")>>},
     {<<W("net")>>, <<W("diplom")>>},
     {<<W("srochnaya")>>},
     {<<T("ivan")>>, <<W("5")>>},
     {<<W("+7000000")>>, <<W("123456")>>},
     {<<W("a@b.co")>>, <<W("diplom")>>},
     {<<W("utrom")>>} >>

\* what a user may write at any time
FreeTexts ==
  {<<W("20"), W("str"), W("srochno")>>, <<W("0"), W("str"), W("srochno")>>,
   <<W("diplom")>>}

\* correction commands made of a trigger word and an alias only, one for
\* each field (two for urgency)
BareCorrections ==
  {<<W("izmeni"), W("dokument")>>,
   <<W("izmeni"), W("strana-otpravitel")>>,
   <<W("izmeni"), W("iz"), W("goroda")>>,
   <<W("izmeni"), W("strana-poluchatel")>>,
   <<W("izmeni"), W("v"), W("gorod")>>,
   <<W("izmeni"), W("listov")>>,
   <<W("izmeni"), W("ves")>>,
   <<W("izmeni"), W("srochnost")>>,
   <<W("izmeni"), W("skorost")>>,
   <<W("izmeni"), W("imya")>>,
   <<W("izmeni"), W("telefon")>>,
   <<W("izmeni"), W("pochta")>>,
   <<W("izmeni"), W("vremya"), W("svyazi")>>}

\* correction commands that also carry a value for the field
ValueCorrections ==
  {<<W("izmeni"), W("strana-poluchatel"), W("v"), T("belarus")>>,
   <<W("izmeni"), W("listov"), W("0")>>,
   <<W("izmeni"), W("ves"), W("0")>>,
   <<W("izmeni"), W("telefon"), W("+7000000")>>}

Corrections == BareCorrections \cup ValueCorrections

\* the replies of the language model to the extraction prompt
LMReplies ==
  {LMFail,
   LMReply(("phone" :> JStr(<<W("+7000000")>>)) @@ ("pages_a4" :> JInt(5))),
   LMReply(("from_country" :> JStr(<<T("germaniya")>>))
           @@ ("pages_a4" :> JInt(0)) @@ ("weight_grams" :> JStr(<<W("net")>>))),
   LMReply(("to_country" :> JStr(<<W("lat:ru")>>))
           @@ ("urgency" :> JStr(<<W("lat:express")>>))
           @@ ("name" :> JStr(<<W("5")>>)) @@ ("email" :> JNull)
           @@ ("comment" :> JStr(<<W("privet")>>)))}

\* the most turns of one lead that leave the script of question and answer:
\* correction commands, texts off the question, extractions by the model
MaxDetours == 1

(***************************************************************************)
(* The state.                                                              *)
(***************************************************************************)
VARIABLES
  cfg,      \* the configuration: [client, ADMIN_CHAT_ID]
  storage,  \* "up": every storage call succeeds; "flaky": any may fail
  db,       \* the row of user_state for the conversation
  inp,      \* the update handled last: [op, text, lm, chat_ok, f]
  log,      \* the effects of handling it, in order
  ncorr,    \* correction commands among the turns of the lead
  nfree,    \* its other turns off the script
  processed_updates,  \* the update_ids in the table processed_updates
  requests  \* the webhook requests: [update_id, pc, dispatched, failed]

vars == <<cfg, storage, db, inp, log, ncorr, nfree, processed_updates, requests>>

\* no webhook request has been received
NoWebhook == processed_updates = {} /\ requests = <<>>

Input(op, text, lm, chat_ok, f) ==
  [op |-> op, text |-> text, lm |-> lm, chat_ok |-> chat_ok, f |-> f]
Command(op) == Input(op, <<>>, LMFail, FALSE, AllOk)

Outcomes ==
  IF storage = "up" THEN {AllOk}
  ELSE [get : BOOLEAN, upd : BOOLEAN, set : BOOLEAN, ins : BOOLEAN]

\* the configurations: the model off and no operator, the model on and an
\* operator, the operator's own conversation
Configs ==
  {[client |-> FALSE, ADMIN_CHAT_ID |-> 0],
   [client |-> TRUE, ADMIN_CHAT_ID |-> Max(Chats)],
   [client |-> TRUE, ADMIN_CHAT_ID |-> chat_id]}

Init ==
  /\ cfg \in Configs
  /\ storage = "up"
  /\ db = NoRow
  /\ inp = Command("boot")
  /\ log = <<>>
  /\ ncorr = 0
  /\ nfree = 0
  /\ NoWebhook

\* /start
start ==
  /\ inp' = Command("start")
  /\ log' = <<History, Send(chat_id, Note("welcome"))>>
  /\ UNCHANGED <<processed_updates, requests, cfg, storage, db, ncorr, nfree>>

\* /news
news ==
  /\ inp' = Command("news")
  /\ log' = <<History, Send(chat_id, Note("news"))>>
  /\ UNCHANGED <<processed_updates, requests, cfg, storage, db, ncorr, nfree>>

\* /ai
ai_ping ==
  \E chat_ok \in IF cfg.client THEN BOOLEAN ELSE {FALSE} :
    /\ inp' = Input("ai", <<>>, LMFail, chat_ok, AllOk)
    /\ log' = <<History, Send(chat_id, ai_reply(cfg, chat_ok))>>
    /\ UNCHANGED <<processed_updates, requests, cfg, storage, db, ncorr, nfree>>

\* /consult
consult ==
  \E f \in Outcomes :
    /\ db' = set_state(db, f.set, "collecting", Put(EmptyDict, "_idx", 0))
    /\ inp' = Input("consult", <<>>, LMFail, FALSE, f)
    /\ log' = <<[e |-> "state", state |-> "collecting"]>> \o ask(0)
    /\ ncorr' = 0
    /\ nfree' = 0
    /\ UNCHANGED <<processed_updates, requests, cfg, storage>>

\* /reset
reset ==
  \E f \in Outcomes :
    /\ db' = set_state(db, f.set, "greeting", EmptyDict)
    /\ inp' = Input("reset", <<>>, LMFail, FALSE, f)
    /\ log' = <<[e |-> "state", state |-> "greeting"], History,
                Send(chat_id, Note("reset"))>>
    /\ ncorr' = 0
    /\ nfree' = 0
    /\ UNCHANGED <<processed_updates, requests, cfg, storage>>

\* the answers to the question the wizard has asked
Expected ==
  IF db.state = "collecting"
    THEN LET i == GetOr(db.data, "_idx", 0) IN
         IF 0 <= i /\ i < NFields THEN Answers[i + 1] ELSE {}
    ELSE {}

Detour == db.state # "collecting" \/ ncorr + nfree < MaxDetours

\* the texts the user may send in the current state
Texts ==
  Expected \cup {t \in Corrections \cup FreeTexts : Detour}

LMAsked(text) ==
  /\ cfg.client
  /\ detect_jump_or_edit(text).key = None
  /\ heuristic_parse(text) = EmptyDict

\* one of the texts of ai_reply was sent
Replied(lg) ==
  \E i \in 1..Len(lg) :
    /\ lg[i].e = "send"
    /\ lg[i].msg.t \in {"ai_answer", "ai_pause", "ai_unavailable"}

\* the state after handle_answer has returned r; jump: the text is a
\* correction command, free: the turn leaves the script
Handled(text, lm, chat_ok, f, jump, free, r) ==
  /\ chat_ok => Replied(r.log) /\ cfg.client
  /\ db' = r.db
  /\ inp' = Input("text", text, lm, chat_ok, f)
  /\ log' = r.log
  /\ ncorr' = (IF db.state = "collecting" THEN ncorr ELSE 0)
              + (IF jump THEN 1 ELSE 0)
  /\ nfree' = (IF db.state = "collecting" THEN nfree ELSE 0)
              + (IF ~jump /\ free THEN 1 ELSE 0)
  /\ UNCHANGED <<processed_updates, requests, cfg, storage>>

\* any other message: any_text calls handle_answer
any_text ==
  \E text \in Texts :
  \E lm \in IF LMAsked(text) /\ Detour THEN LMReplies ELSE {LMFail} :
  \E chat_ok \in IF cfg.client THEN BOOLEAN ELSE {FALSE} :
  \E f \in Outcomes :
    Handled(text, lm, chat_ok, f, detect_jump_or_edit(text).key # None,
            lm # LMFail \/ text \notin Expected,
            handle_answer(cfg, db, text, lm, chat_ok, f))

Next == start \/ news \/ ai_ping \/ consult \/ reset \/ any_text

Spec == Init /\ [][Next]_vars

(***************************************************************************)
(* One update on a storage whose calls may fail: get_conn() returns None   *)
(* or the statement raises, and the function logs and returns. The row is  *)
(* one the program stores with storage working; the update is handled with *)
(* every outcome of its storage calls.                                     *)
(***************************************************************************)
\* an answer the field at idx accepts
ValidAnswerTo(idx) ==
  CHOOSE t \in Answers[idx + 1] : StrictValue(FIELDS[idx + 1], t) # None

\* the lead data after /consult and valid answers to the first n questions:
\* the strict step stores each answer and derives the weight from the pages
ScriptData(n) ==
  LET d == [k \in {FIELDS[i].key : i \in 1..n} |->
              The(StrictValue(FIELDS[IndexOf(k) + 1],
                              ValidAnswerTo(IndexOf(k))))]
  IN IF "pages_a4" \in DOMAIN d /\ "weight_grams" \notin DOMAIN d
       THEN Put(d, "weight_grams", d["pages_a4"] * 6) ELSE d

\* the row after /consult and valid answers to the first n questions
ScriptRow(n) ==
  IF n < NFields
    THEN [row |-> TRUE, state |-> "collecting",
          data |-> Put(ScriptData(n), "_idx", n)]
    ELSE [row |-> TRUE, state |-> "completed", data |-> EmptyDict]

\* rows of user_state: none, after /consult and n answers (the lead is
\* completed by the last), after /reset, after a correction command with
\* no value in a new conversation
StoredRows ==
  {NoRow}
  \cup {ScriptRow(n) : n \in 0..NFields}
  \cup {[row |-> TRUE, state |-> "greeting", data |-> EmptyDict],
        [row |-> TRUE, state |-> "collecting",
         data |-> Put(EmptyDict, "_idx", IndexOf("email"))]}

FlakyInit ==
  /\ cfg \in Configs
  /\ storage = "flaky"
  /\ db \in StoredRows
  /\ inp = Command("boot")
  /\ log = <<>>
  /\ ncorr = 0
  /\ nfree = 0
  /\ NoWebhook

FlakyNext == log = <<>> /\ Next

FlakySpec == FlakyInit /\ [][FlakyNext]_vars

(***************************************************************************)
(* The pure functions on their own. The call is drawn in the initial       *)
(* state, the action applies the function: inp holds the call and log the  *)
(* value returned.                                                         *)
(***************************************************************************)
RECURSIVE DictsOf(_, _)
\* the dictionaries with keys among K whose value for key k is one of V[k]
DictsOf(V, K) ==
  IF K = {} THEN {EmptyDict}
  ELSE LET k == CHOOSE x \in K : TRUE
           R == DictsOf(V, K \ {k})
       IN R \cup {Put(d, k, V[k][i]) : d \in R, i \in 1..Len(V[k])}

Return(v) == <<[e |-> "return", value |-> v]>>

NoWizard ==
  /\ cfg = [client |-> TRUE, ADMIN_CHAT_ID |-> 0]
  /\ storage = "up"
  /\ db = NoRow
  /\ log = <<>>
  /\ ncorr = 0
  /\ nfree = 0
  /\ NoWebhook

\* the values of the lead data a merge starts from
ExistingValues ==
  ("pages_a4" :> <<0, 5>>) @@ ("weight_grams" :> <<0, 7>>)
  @@ ("from_country" :> << <<T("ukraina")>>, <<T("kiev")>>, <<>> >>)
  @@ ("name" :> << <<T("ivan")>>, <<>> >>)
  @@ ("_idx" :> <<6>>)

\* the values of the extraction merged into it
ParsedValues ==
  ("pages_a4" :> <<9>>) @@ ("weight_grams" :> <<8>>)
  @@ ("from_country" :> << <<T("rossiya")>> >>)
  @@ ("name" :> << <<T("kiev")>> >>)

MergeInit ==
  /\ NoWizard
  /\ \E d \in DictsOf(ExistingValues, DOMAIN ExistingValues) :
     \E p \in DictsOf(ParsedValues, DOMAIN ParsedValues) :
       inp = [op |-> "merge_ai_data", existing |-> d, parsed |-> p]

CallMerge ==
  /\ inp.op = "merge_ai_data"
  /\ log = <<>>
  /\ log' = Return(merge_ai_data(inp.existing, inp.parsed))
  /\ UNCHANGED <<processed_updates, requests, cfg, storage, db, inp, ncorr, nfree>>

MergeNext == CallMerge

MergeSpec == MergeInit /\ [][MergeNext]_vars

\* the longest text given to heuristic_parse, in words
MaxLen == 2

HeuristicWords == {"20", "0", "str", "g", "srochno", "diplom"}

RECURSIVE TextsOf(_)
\* the texts of at most n of these words
TextsOf(n) ==
  IF n = 0 THEN {<<>>}
  ELSE LET R == TextsOf(n - 1) IN
       R \cup {Append(t, W(w)) : t \in {r \in R : Len(r) = n - 1},
                                 w \in HeuristicWords}

\* the values of the JSON object the language model replies with
JsonValues ==
  ("from_country" :> <<JStr(<<W("lat:ru")>>), JStr(<<T("germaniya")>>)>>)
  @@ ("pages_a4" :> <<JInt(0), JInt(5), JStr(<<W("20")>>)>>)
  @@ ("weight_grams" :> <<JInt(0), JStr(<<W("net")>>)>>)
  @@ ("urgency" :> <<JStr(<<W("lat:express")>>), JStr(<<W("privet")>>)>>)
  @@ ("name" :> <<JStr(<<T("ivan")>>), JInt(5)>>)
  @@ ("phone" :> <<JStr(<<W("+7000000")>>), JStr(<<W("123456")>>)>>)
  @@ ("email" :> <<JStr(<<W("a@b.co")>>), JNull>>)
  @@ ("comment" :> <<JStr(<<W("privet")>>)>>)

ExtractInit ==
  /\ NoWizard
  /\ \/ \E text \in TextsOf(MaxLen) :
          inp = [op |-> "heuristic_parse", text |-> text, lm |-> LMFail]
     \/ \E json \in DictsOf(JsonValues, DOMAIN JsonValues) :
          inp = [op |-> "ai_understand", text |-> <<>>, lm |-> LMReply(json)]
     \/ inp = [op |-> "ai_understand", text |-> <<>>, lm |-> LMFail]

CallHeuristic ==
  /\ inp.op = "heuristic_parse"
  /\ log = <<>>
  /\ log' = Return(heuristic_parse(inp.text))
  /\ UNCHANGED <<processed_updates, requests, cfg, storage, db, inp, ncorr, nfree>>

CallUnderstand ==
  /\ inp.op = "ai_understand"
  /\ log = <<>>
  /\ log' = Return(ai_understand(cfg.client, inp.lm))
  /\ UNCHANGED <<processed_updates, requests, cfg, storage, db, inp, ncorr, nfree>>

ExtractNext == CallHeuristic \/ CallUnderstand

ExtractSpec == ExtractInit /\ [][ExtractNext]_vars

\* the heaviest lead given to compute_quote, in grams
MaxWeight == 120

\* the values of the lead data a quote is computed for
QuoteValues ==
  ("weight_grams" :> [i \in 1..(MaxWeight + 1) |-> i - 1])
  @@ ("urgency" :> <<NORMAL, URGENT, <<T("srochnaya")>>, <<W("privet")>> >>)
  @@ ("from_country" :> << <<T("ukraina")>>, <<T("rossiya")>>, <<T("kiev")>> >>)
  @@ ("to_country" :> << <<T("rossiya")>>, <<T("belarus")>>, <<T("ukraina")>> >>)
  @@ ("pages_a4" :> <<5>>)

QuoteInit ==
  /\ NoWizard
  /\ \E d \in DictsOf(QuoteValues, DOMAIN QuoteValues) :
       inp = [op |-> "compute_quote", d |-> d]

\* compute_quote(d) reads d and assigns nothing to it
CallQuote ==
  /\ inp.op = "compute_quote"
  /\ log = <<>>
  /\ log' = Return(compute_quote(inp.d))
  /\ UNCHANGED <<processed_updates, requests, cfg, storage, db, inp, ncorr, nfree>>

QuoteNext == CallQuote

QuoteSpec == QuoteInit /\ [][QuoteNext]_vars

\* the longest utterance given to parse_int, in words
MaxWords == 3

\* a unit, a teen, a tens word, the hundred, and a word that is no number
NumberWords == {"pyat", "pyatnadtsat", "dvadtsat", "sto", "listov"}

RECURSIVE Utterances(_)
\* the utterances of at most n of these words
Utterances(n) ==
  IF n = 0 THEN {<<>>}
  ELSE LET R == Utterances(n - 1) IN
       R \cup {Append(t, W(w)) : t \in {r \in R : Len(r) = n - 1},
                                 w \in NumberWords}

ParseInit ==
  /\ NoWizard
  /\ \E text \in Utterances(MaxWords) :
       inp = [op |-> "parse_int", text |-> text]

CallParseInt ==
  /\ inp.op = "parse_int"
  /\ log = <<>>
  /\ log' = Return(parse_int(inp.text))
  /\ UNCHANGED <<processed_updates, requests, cfg, storage, db, inp, ncorr, nfree>>

ParseNext == CallParseInt

ParseSpec == ParseInit /\ [][ParseNext]_vars

(***************************************************************************)
(* The webhook. Every POST of an update is a request served on its own;    *)
(* the server serves requests concurrently, so the steps of two requests   *)
(* interleave. The storage works.                                          *)
(***************************************************************************)
\* the requests received in a run, the update_ids they carry
MaxRequests == 3
MaxUpdates == 2
UpdateIds == 1..MaxUpdates

WebhookInit ==
  /\ NoWizard
  /\ inp = Command("boot")

\* the request at position r moves to pc
Step(r, pc) == [requests EXCEPT ![r].pc = pc]

\* a POST with update_id u arrives
telegram_webhook(u) ==
  /\ Len(requests) < MaxRequests
  /\ requests' = Append(requests, [update_id |-> u, pc |-> "is_update_processed",
                                    dispatched |-> FALSE, failed |-> FALSE])
  /\ UNCHANGED <<processed_updates, cfg, storage, db, inp, log, ncorr, nfree>>

\* SELECT 1 FROM processed_updates; a processed update is answered at once
is_update_processed(r) ==
  /\ requests[r].pc = "is_update_processed"
  /\ requests' = IF requests[r].update_id \in processed_updates
                   THEN Step(r, "return")
                   ELSE Step(r, "mark_update_processed")
  /\ UNCHANGED <<processed_updates, cfg, storage, db, inp, log, ncorr, nfree>>

\* INSERT INTO processed_updates ... ON CONFLICT DO NOTHING
mark_update_processed(r) ==
  /\ requests[r].pc = "mark_update_processed"
  /\ processed_updates' = processed_updates \cup {requests[r].update_id}
  /\ requests' = Step(r, "process_new_updates")
  /\ UNCHANGED <<cfg, storage, db, inp, log, ncorr, nfree>>

\* bot.process_new_updates([update]): the handlers run, or raise and the
\* exception is logged; the request is answered either way
process_new_updates(r) ==
  /\ requests[r].pc = "process_new_updates"
  /\ \E ok \in BOOLEAN :
       requests' = [requests EXCEPT ![r].pc = "return",
                                    ![r].dispatched = TRUE,
                                    ![r].failed = ~ok]
  /\ UNCHANGED <<processed_updates, cfg, storage, db, inp, log, ncorr, nfree>>

WebhookNext ==
  \/ \E u \in UpdateIds : telegram_webhook(u)
  \/ \E r \in DOMAIN requests : is_update_processed(r)
  \/ \E r \in DOMAIN requests : mark_update_processed(r)
  \/ \E r \in DOMAIN requests : process_new_updates(r)

WebhookSpec == WebhookInit /\ [][WebhookNext]_vars

(***************************************************************************)
(* The properties. They are stated on the state a turn leaves: inp is the  *)
(* update handled, log its effects, db the row stored.                     *)
(***************************************************************************)
\* the update handled last was a text message, given to handle_answer
Turn == inp.op = "text"
\* the row handle_answer read when the turn began
Row == log[1].row
\* the function applied last has returned log[1].value
Returned == Len(log) = 1 /\ log[1].e = "return"

Events(e) == {i \in 1..Len(log) : log[i].e = e}
Messages(t) == {i \in Events("send") : log[i].msg.t = t}
\* the indexes of the fields asked, the types of the errors reported
Asked == {log[i].msg.idx : i \in Messages("ask")}
Errors == {log[i].msg.type : i \in Messages("error")}
Finalized == Events("finalize") # {}
\* the lead data the turn leaves: the data finalized, or else the data stored
Lead == IF Finalized THEN log[Min(Events("finalize"))].data ELSE db.data

Field(k) == FIELDS[IndexOf(k) + 1]
Valid(d, k) == is_filled(Field(k), Get(d, k))
Fields(d) == [k \in DOMAIN d \ {"_idx"} |-> d[k]]
ExpectedIndex(d) ==
  IF GetOr(d, "_idx", 0) < 0 \/ GetOr(d, "_idx", 0) >= NFields
    THEN 0 ELSE GetOr(d, "_idx", 0)
Jump == detect_jump_or_edit(inp.text)
Extracted == Extract(cfg, inp.text, inp.lm)

\* C1: finalize_form is only entered with lead data in which all twelve
\* fields of the schema pass validation, that is with
\* first_missing_index(data) = len(FIELDS)
C1_FinalizeOnlyComplete ==
  \A i \in Events("finalize") : first_missing_index(log[i].data) = NFields

\* merge_ai_data(d, {k: v}) has returned and k is valid in d
MergeOne(k) ==
  /\ Returned /\ inp.op = "merge_ai_data"
  /\ DOMAIN inp.parsed = {k}
  /\ Valid(inp.existing, k)

\* C2 as stated: a field k valid in d, weight_grams = 0 included, has the
\* same value in merge_ai_data(d, {k: v}) as in d
C2_NoClobber ==
  \A k \in AI_KEYS : MergeOne(k) => log[1].value[k] = inp.existing[k]

\* C2 amended: a field valid in d whose value is not 0 has the same value in
\* merge_ai_data(d, parsed) as in d, whatever parsed holds for it
C2_NoClobberNonZero ==
  Returned /\ inp.op = "merge_ai_data" =>
    \A k \in AI_KEYS \cap DOMAIN inp.parsed :
      Valid(inp.existing, k) /\ ~Blank(inp.existing, k)
        => log[1].value[k] = inp.existing[k]

C2_Witness ==
  /\ MergeOne("from_country")
  /\ inp.existing["from_country"] = <<T("ukraina")>>
  /\ inp.parsed["from_country"] = <<T("rossiya")>>
  /\ log[1].value["from_country"] = <<T("ukraina")>>

\* C3 as stated: merging a map whose keys are all valid in d, the empty map
\* included, returns d
C3_Idempotent ==
  Returned /\ inp.op = "merge_ai_data" =>
    ((\A k \in DOMAIN inp.parsed : Valid(inp.existing, k))
       => log[1].value = inp.existing)

\* d has no positive page count beside an absent or zero weight
Settled(d) ==
  ~(/\ ~Blank(d, "pages_a4")
    /\ d["pages_a4"] > 0
    /\ Blank(d, "weight_grams"))

\* C3 amended: when d has no positive page count beside an absent or zero
\* weight, merging a map whose keys are all valid and not 0 in d, the empty
\* map included, returns d
C3_IdempotentSettled ==
  Returned /\ inp.op = "merge_ai_data" /\ Settled(inp.existing) =>
    ((\A k \in DOMAIN inp.parsed :
        Valid(inp.existing, k) /\ ~Blank(inp.existing, k))
       => log[1].value = inp.existing)

C3_Witness ==
  /\ Returned /\ inp.op = "merge_ai_data"
  /\ DOMAIN inp.parsed = {"pages_a4", "weight_grams"}
  /\ Get(inp.existing, "pages_a4") = Some(5)
  /\ Get(inp.existing, "weight_grams") = Some(7)
  /\ log[1].value = inp.existing

\* C4 as stated: a turn that finalizes inserts exactly one lead and sends
\* exactly one operator notification, a turn that does not finalize none
C4_ExactlyOnce ==
  /\ Cardinality(Events("finalize")) <= 1
  /\ Cardinality(Events("lead")) = Cardinality(Events("finalize"))
  /\ Cardinality(Messages("lead_card")) = Cardinality(Events("finalize"))

\* C4 amended: a turn that finalizes, its insert succeeding, inserts exactly
\* one lead and calls notify_admin_lead exactly once, which sends exactly one
\* message to the operator when an operator chat is configured and is not
\* the chat of the lead, and none otherwise; a turn that does not finalize
\* inserts no lead and notifies nobody
C4_OncePerFinalization ==
  /\ Cardinality(Events("finalize")) <= 1
  /\ Cardinality(Events("lead")) = Cardinality(Events("finalize"))
  /\ Cardinality(Events("notify")) = Cardinality(Events("finalize"))
  /\ Cardinality(Messages("lead_card")) =
       IF Finalized /\ cfg.ADMIN_CHAT_ID \notin {0, chat_id} THEN 1 ELSE 0
  /\ \A i \in Messages("lead_card") : log[i].to = cfg.ADMIN_CHAT_ID

C4_Witness ==
  /\ Turn /\ Finalized
  /\ Cardinality(Events("lead")) = 1
  /\ Cardinality(Messages("lead_card")) = 1

\* the answer of the turn is rejected: the wizard is collecting, the text is
\* no correction, its extraction changes no data and the expected field
\* does not accept it
Rejected ==
  /\ Turn /\ Row.state = "collecting"
  /\ Jump.key = None
  /\ Extracted = EmptyDict \/ merge_ai_data(Row.data, Extracted) = Row.data
  /\ StrictValue(FIELDS[ExpectedIndex(Row.data) + 1], inp.text) = None

\* C5: a rejected answer leaves the stored state, every field value and
\* expected_index as they were, the error text of the field's validator is
\* sent and the same field is asked again, every time
C5_RejectedAnswer ==
  Rejected =>
    /\ db = [row |-> TRUE, state |-> "collecting", data |-> Row.data]
    /\ Errors = {FIELDS[ExpectedIndex(Row.data) + 1].type}
    /\ Asked = {ExpectedIndex(Row.data)}
    /\ log[Len(log)] = Send(chat_id, Ask(ExpectedIndex(Row.data)))

C5_Witness ==
  /\ Rejected
  /\ inp.text = <<W("123456")>>
  /\ Errors = {"phone"}
  /\ Get(db.data, "_idx") = Some(IndexOf("phone"))

\* the fields still missing for which the utterance carries a valid value
Carried ==
  {k \in DOMAIN Extracted \cap AI_KEYS :
     ~Valid(Row.data, k) /\ is_filled(Field(k), Some(Extracted[k]))}

\* while collecting, the text, no correction, carries several such values
Several ==
  /\ Turn /\ Row.state = "collecting"
  /\ Jump.key = None
  /\ Cardinality(Carried) >= 2

\* C6 as stated: every missing field the utterance carries a valid value for
\* is filled after the turn, and the field asked next lies past all of them
C6_FilledAndPast ==
  Several =>
    /\ \A k \in Carried : Get(Lead, k) = Some(Extracted[k])
    /\ \/ Finalized
       \/ /\ Asked # {}
          /\ \A i \in Asked : \A k \in Carried : i > IndexOf(k)

\* C6 amended: every such field whose stored value is absent, empty or zero
\* is filled with the extracted value after the turn; when there is one,
\* the field asked next is the first field in schema order that still fails
\* validation, which may come before the fields just filled, and the lead
\* is finalized when no field fails
C6_FilledAndFirstMissing ==
  Several =>
    /\ \A k \in Carried :
         Blank(Row.data, k) => Get(Lead, k) = Some(Extracted[k])
    /\ (\E k \in Carried : Blank(Row.data, k)) =>
         IF first_missing_index(Lead) = NFields
           THEN Finalized /\ db.state = "completed"
           ELSE /\ ~Finalized
                /\ db.state = "collecting"
                /\ Get(db.data, "_idx") = Some(first_missing_index(Lead))
                /\ Asked = {first_missing_index(Lead)}

C6_Witness ==
  /\ Several
  /\ Carried = {"phone", "pages_a4", "weight_grams"}
  /\ Valid(db.data, "phone") /\ Valid(db.data, "pages_a4")
  /\ Asked = {IndexOf("from_country")}

\* C7: a correction command of a trigger word and a field alias, with no
\* new value, changes no field value: it sets expected_index to the index of
\* the aliased field, puts the conversation in collecting and asks that
\* field again, for each of the aliases
C7_BareCorrectionMovesOnly ==
  Turn /\ inp.text \in BareCorrections =>
    /\ Fields(db.data) = Fields(Row.data)
    /\ db.state = "collecting"
    /\ Get(db.data, "_idx") = Some(IndexOf(The(Jump.key)))
    /\ Asked = {IndexOf(The(Jump.key))}

\* the text is a correction command from which a new value is extracted
Overwrite == Turn /\ Jump.key # None /\ Jump.val # None

\* C8: a correction command that carries a new value stores it in the
\* aliased field whatever the field holds, in any conversation state and
\* before any extraction or validation of the text, and leaves the other
\* fields alone (a new page count may derive the weight); then the
\* conversation is collecting at the recomputed first_missing_index, or
\* the lead is finalized when the form is complete
C8_CorrectionOverwrites ==
  Overwrite =>
    /\ Events("extract") = {} /\ Errors = {}
    /\ Get(Lead, The(Jump.key)) = Some(The(Jump.val))
    /\ \A x \in AI_KEYS \ {The(Jump.key), "weight_grams"} :
         Get(Lead, x) = Get(Row.data, x)
    /\ The(Jump.key) \notin {"pages_a4", "weight_grams"} =>
         Get(Lead, "weight_grams") = Get(Row.data, "weight_grams")
    /\ IF first_missing_index(Lead) = NFields
         THEN Finalized /\ db.state = "completed"
         ELSE /\ ~Finalized
              /\ db.state = "collecting"
              /\ Get(db.data, "_idx") = Some(first_missing_index(Lead))
              /\ Asked = {first_missing_index(Lead)}

C8_Witness ==
  /\ Overwrite
  /\ Jump.key = Some("to_country")
  /\ Get(Row.data, "to_country") = Some(<<T("rossiya")>>)
  /\ Get(db.data, "to_country") = Some(<<T("belarus")>>)

\* C9: every value heuristic_parse or ai_understand returns for a field of
\* the schema passes the strict validation of that field
C9_ExtractedValuesValid ==
  Returned /\ inp.op \in {"heuristic_parse", "ai_understand"} =>
    \A k \in DOMAIN log[1].value \cap AI_KEYS :
      is_filled(Field(k), Some(log[1].value[k]))

\* the lead began with /consult and every turn of it, this one included,
\* answered the question asked
OnScript == Turn /\ Row.state = "collecting" /\ ncorr = 0 /\ nfree = 0

\* C10: from /consult, with answers to the questions in schema order and no
\* correction command, first_missing_index of the lead data after a turn is
\* never below first_missing_index before it
C10_MonotonicProgress ==
  OnScript => first_missing_index(Lead) >= first_missing_index(Row.data)

C10_Witness ==
  /\ OnScript
  /\ first_missing_index(Row.data) = IndexOf("name")
  /\ first_missing_index(Lead) = IndexOf("phone")

\* outside the wizard, the text, no correction command, names a page count
\* and an urgency and no weight in grams
PagesAndUrgency ==
  /\ Turn /\ Row.state # "collecting"
  /\ Jump.key = None
  /\ NumberBefore({"str", "list"}, inp.text) # None
  /\ NumberBefore({"g", "gr", "gramm"}, inp.text) = None
  /\ infer_urgency(inp.text) # None

\* C11: outside the wizard, when heuristic_parse finds a page count n and an
\* urgency in the utterance, the lead data stored is exactly pages_a4 = n,
\* weight_grams = 6 * n and the urgency, the state is collecting and
\* expected_index is 0, the document type, which is the field asked
C11_PagesAndUrgency ==
  PagesAndUrgency =>
    /\ Fields(db.data) =
         ("pages_a4" :> The(NumberBefore({"str", "list"}, inp.text)))
         @@ ("weight_grams" :> 6 * The(NumberBefore({"str", "list"}, inp.text)))
         @@ ("urgency" :> The(infer_urgency(inp.text)))
    /\ db.state = "collecting"
    /\ Get(db.data, "_idx") = Some(0)
    /\ Asked = {IndexOf("doc_type")}

\* the same for a page count above 0
C11_PositivePages ==
  PagesAndUrgency /\ The(NumberBefore({"str", "list"}, inp.text)) > 0
    => C11_PagesAndUrgency

\* every call of the language model made for the update failed
LMDown == inp.lm = LMFail /\ ~inp.chat_ok

\* the one message of the turn is the fixed text ai_reply falls back to
Fallback ==
  /\ Cardinality(Events("send")) = 1
  /\ log[Len(log)] =
       Send(chat_id, Note(IF cfg.client THEN "ai_pause" ELSE "ai_unavailable"))

\* what is left to do for the lead: three for each field from expected_index
\* on, two for each field absent from the data, one for each empty or zero
Measure(d) ==
  3 * (NFields - ExpectedIndex(d))
  + 2 * Cardinality(AI_KEYS \ DOMAIN d)
  + Cardinality({k \in AI_KEYS \cap DOMAIN d : Blank(d, k)})

\* in a lead without correction commands, the text, none either, is a value
\* the expected field accepts
ValidAnswer ==
  /\ Turn /\ Row.state = "collecting" /\ ncorr = 0
  /\ LMDown
  /\ StrictValue(FIELDS[ExpectedIndex(Row.data) + 1], inp.text) # None

\* C12: with the language model absent or failing on every call and storage
\* working, a text in which heuristic_parse finds nothing yields no
\* extraction, outside the wizard it is answered with the fixed fallback text
\* of ai_reply and the row is left alone, as /ai is; and from /consult every
\* valid answer to the field asked either completes the lead or leaves the
\* conversation collecting with a strictly smaller measure of what is left,
\* which is never negative, so completed is reached after finitely many
\* valid answers
C12_DegradesAndTerminates ==
  /\ Turn /\ LMDown /\ Jump.key = None /\ heuristic_parse(inp.text) = EmptyDict
       => /\ Events("extract") = {}
          /\ Row.state # "collecting"
               => Fallback /\ db.state = Row.state /\ db.data = Row.data
  /\ inp.op = "ai" /\ ~inp.chat_ok => Fallback
  /\ Measure(db.data) >= 0
  /\ ValidAnswer =>
       /\ Errors = {}
       /\ IF Finalized
            THEN db.state = "completed" /\ first_missing_index(Lead) = NFields
            ELSE /\ db.state = "collecting"
                 /\ Measure(db.data) < Measure(Row.data)
                 /\ ExpectedIndex(db.data) >= ExpectedIndex(Row.data)

\* the last valid answer of a lead taken without the language model
C12_Witness ==
  /\ ValidAnswer /\ OnScript /\ ~cfg.client
  /\ ExpectedIndex(Row.data) = NFields - 1
  /\ db.state = "completed"
  /\ Get(Lead, "urgency") = Some(URGENT)

\* every storage call of the update succeeded
Stored == inp.f = AllOk

\* the state the handler leaves the conversation in, as it sees it: the
\* state it last gave to set_state, or else the state it read
HandlerState ==
  IF Events("state") = {} THEN Row.state
  ELSE log[Max(Events("state"))].state

InsertFails == Finalized /\ ~inp.f.ins

\* C14: when the insert of the lead fails, finalize_form adds no lead and
\* still, in this order, computes the quote of the lead data, calls
\* notify_admin_lead (which sends the card when an operator chat other than
\* the lead's is configured), sends the user the confirmation with that
\* quote and calls set_state with completed, which is then the stored state
\* unless set_state fails too
C14_FinalizesWithoutLead ==
  InsertFails =>
    /\ Events("lead") = {}
    /\ \E q \in Events("quote") : \E n \in Events("notify") :
       \E u \in Messages("final") : \E c \in Events("state") :
         /\ q < n /\ n < u /\ u < c /\ c = Len(log)
         /\ log[q].quote = compute_quote(Lead)
         /\ log[u] = Send(chat_id, UserReply(compute_quote(Lead)))
         /\ log[c].state = "completed"
    /\ Cardinality(Messages("lead_card")) =
         IF cfg.ADMIN_CHAT_ID \notin {0, chat_id} THEN 1 ELSE 0
    /\ inp.f.set => db.state = "completed" /\ db.data = EmptyDict

C14_Witness ==
  /\ InsertFails /\ inp.f.get /\ inp.f.set
  /\ Row.state = "collecting"
  /\ first_missing_index(Lead) = NFields
  /\ Cardinality(Messages("lead_card")) = 1
  /\ db.state = "completed"

\* C15: the operator summary goes only to the configured operator chat and
\* never to the conversation of the lead; none is sent when ADMIN_CHAT_ID is
\* 0 or is the conversation being finalized; every other message of the
\* update goes to the conversation
C15_OperatorOnly ==
  /\ \A i \in Messages("lead_card") :
       /\ log[i].to = cfg.ADMIN_CHAT_ID
       /\ log[i].to # chat_id
       /\ Finalized
  /\ cfg.ADMIN_CHAT_ID \in {0, chat_id} => Messages("lead_card") = {}
  /\ \A i \in Events("send") \ Messages("lead_card") : log[i].to = chat_id

\* a lead finalized in the operator's own conversation: the confirmation is
\* sent, the summary is not
C15_Witness ==
  /\ Turn /\ Finalized
  /\ cfg.ADMIN_CHAT_ID = chat_id
  /\ Messages("lead_card") = {}
  /\ Messages("final") # {}

\* C16: after /reset, from any conversation state, the stored state is idle
\* (greeting) and the stored lead data is empty, and the user is told so
C16_ResetClears ==
  inp.op = "reset" /\ Stored =>
    /\ db = [row |-> TRUE, state |-> "greeting", data |-> EmptyDict]
    /\ Messages("reset") # {}
    /\ Asked = {}

C16_Witness ==
  /\ inp.op = "reset" /\ Stored
  /\ db.row /\ db.state = "greeting" /\ db.data = EmptyDict

\* C17: after /consult, from any conversation state, the stored state is
\* collecting, expected_index is 0, no field has a value, and the one
\* question sent is the one of field 0
C17_ConsultRestarts ==
  inp.op = "consult" /\ Stored =>
    /\ db = [row |-> TRUE, state |-> "collecting",
             data |-> Put(EmptyDict, "_idx", 0)]
    /\ Fields(db.data) = EmptyDict
    /\ Cardinality(Messages("ask")) = 1
    /\ Asked = {0}
    /\ log[Len(log)] = Send(chat_id, Ask(0))

C17_Witness ==
  /\ inp.op = "consult" /\ Stored
  /\ db.state = "collecting" /\ Get(db.data, "_idx") = Some(0)
  /\ Asked = {0}

\* compute_quote(d) has returned
Quoted == Returned /\ inp.op = "compute_quote"
\* the weight and the tariff compute_quote reads from d
WeightOf(d) == GetOr(d, "weight_grams", 0)
Express(d) == Lower(GetOr(d, "urgency", NORMAL)) = URGENT

\* C18: compute_quote returns the price of the first band of the urgency's
\* table whose threshold is at least the weight: up to 50 g 65 (standard)
\* or 110 (express), up to 100 g 85 or 130; for a weight of 0 or above 100
\* it returns no price and no threshold
C18_PriceBands ==
  Quoted =>
    LET w == WeightOf(inp.d)
        q == log[1].value IN
    /\ w = 0 \/ w > 100 => q.price_eur = None /\ q.threshold_g = None
    /\ 1 <= w /\ w <= 50 =>
         /\ q.threshold_g = Some(50)
         /\ q.price_eur = Some(IF Express(inp.d) THEN 110 ELSE 65)
    /\ 51 <= w /\ w <= 100 =>
         /\ q.threshold_g = Some(100)
         /\ q.price_eur = Some(IF Express(inp.d) THEN 130 ELSE 85)
    /\ q.urgency = IF Express(inp.d) THEN URGENT ELSE NORMAL

C18_Witness ==
  /\ Quoted
  /\ WeightOf(inp.d) = 51 /\ Get(inp.d, "urgency") = Some(URGENT)
  /\ log[1].value.price_eur = Some(130)

\* the part of d compute_quote may depend on
QuoteKeys == {"weight_grams", "urgency", "from_country", "to_country"}
Relevant(d) == [k \in DOMAIN d \cap QuoteKeys |-> d[k]]

\* C19: compute_quote is a function of the weight, the urgency and the two
\* countries of the lead data: its result is the one for the data cut down
\* to these four keys, so two leads equal on them get equal quotes; and the
\* call leaves the lead data it was given as it was
C19_PureQuote ==
  [][inp.op = "compute_quote" /\ log = <<>> /\ log' # log =>
       /\ inp' = inp
       /\ log' = Return(compute_quote(Relevant(inp.d)))]_vars

C19_Witness ==
  /\ Quoted
  /\ Get(inp.d, "pages_a4") = Some(5)
  /\ "weight_grams" \notin DOMAIN inp.d
  /\ log[1].value.price_eur = None

\* while collecting, the text, no correction command, is accepted: its
\* extraction is merged or the strict step takes it as the expected field
Accepted ==
  /\ Turn /\ Row.state = "collecting"
  /\ Jump.key = None
  /\ Errors = {}

\* C20: after a strict answer is accepted or an extraction is merged while
\* collecting, the field asked is the one at first_missing_index of the
\* updated lead data (the lead is finalized when there is none), and no
\* field asked holds a valid value
C20_AsksFirstMissing ==
  Accepted =>
    /\ IF first_missing_index(Lead) = NFields
         THEN Finalized
         ELSE ~Finalized /\ Asked = {first_missing_index(Lead)}
    /\ \A i \in Asked : ~Valid(Lead, FIELDS[i + 1].key)

\* the same for the turns that merge an extraction
C20_MergedAsksFirstMissing ==
  Accepted /\ Messages("accepted_more") # {} => C20_AsksFirstMissing

\* a strict answer is accepted and the field asked next is one that holds
\* a valid value, in a lead without correction commands
C20_AskedThoughValid ==
  /\ Accepted /\ OnScript
  /\ Messages("accepted") # {}
  /\ \E i \in Asked : Valid(Lead, FIELDS[i + 1].key)

\* C21: a lead finalized with a positive page count has a positive
\* weight_grams: a weight given as unknown or zero has been replaced by
\* pages_a4 * 6 before the quote is computed
C21_WeightEstimated ==
  \A i \in Events("finalize") :
    GetOr(log[i].data, "pages_a4", 0) > 0
      => GetOr(log[i].data, "weight_grams", 0) > 0

\* C22: the value a correction command carries is stored in the aliased
\* field only if it passes the validator of that field, so a field that
\* held a valid value holds a valid value after a correction
C22_CorrectionValidated ==
  Overwrite =>
    /\ is_filled(Field(The(Jump.key)), Jump.val)
    /\ Valid(Row.data, The(Jump.key)) => Valid(Lead, The(Jump.key))

\* a correction command has replaced a valid value by one that fails the
\* validation of the field
C22_ValidReplaced ==
  /\ Overwrite
  /\ Valid(Row.data, The(Jump.key))
  /\ ~Valid(Lead, The(Jump.key))

\* C23: whenever the stored state is collecting, the stored expected_index
\* is one of 0 .. len(FIELDS) - 1
C23_IndexInRange ==
  db.state = "collecting" =>
    /\ "_idx" \in DOMAIN db.data
    /\ db.data["_idx"] \in 0..(NFields - 1)

\* the strict step has stored the index of the last field
C23_Witness ==
  /\ Turn /\ Messages("accepted") # {}
  /\ db.state = "collecting"
  /\ Get(db.data, "_idx") = Some(NFields - 1)

\* C24: within one finalization the lead is inserted first (the snapshot
\* of the data finalized, for the conversation), then the quote is computed,
\* then notify_admin_lead is called and sends its card, then the user
\* confirmation is sent, and set_state with completed is the last effect
C24_FinalizationOrder ==
  \A z \in Events("finalize") :
    \E q \in Events("quote") : \E n \in Events("notify") :
    \E u \in Messages("final") : \E c \in Events("state") :
      /\ z < q /\ q < n /\ n < u /\ u < c /\ c = Len(log)
      /\ log[c].state = "completed"
      /\ Stored => Events("lead") # {}
      /\ \A l \in Events("lead") :
           /\ z < l /\ l < q
           /\ log[l] = [e |-> "lead", chat |-> chat_id, payload |-> log[z].data]
      /\ \A a \in Messages("lead_card") : n < a /\ a < u
      /\ \A x \in Events("send") : x > z => x \in Messages("lead_card") \cup {u}

\* a finalization that inserts the lead and sends both messages
C24_Witness ==
  /\ Turn /\ Finalized
  /\ Events("lead") # {}
  /\ Messages("lead_card") # {}
  /\ first_missing_index(Lead) = NFields
  /\ log[Len(log)] = [e |-> "state", state |-> "completed"]

\* the delivery-time line for the lead data d: expedited for express
\* urgency, else the range of a known corridor, else route to be confirmed
EtaLine(d) ==
  IF Express(d) THEN Some("expedited")
  ELSE IF Get(d, "from_country") = Some(<<T("ukraina")>>)
          /\ Get(d, "to_country") = Some(<<T("rossiya")>>) THEN Some("27-29")
  ELSE IF Get(d, "from_country") = Some(<<T("ukraina")>>)
          /\ Get(d, "to_country") = Some(<<T("belarus")>>) THEN Some("21-23")
  ELSE Some("confirm_route")

\* C25: the delivery-time line of the user confirmation and of the operator
\* summary is expedited for a lead with express urgency, never the range
\* of its corridor; for standard urgency it is the fixed range of a known
\* corridor and route to be confirmed for every other pair of countries
C25_EtaLines ==
  Finalized =>
    \A i \in Messages("final") \cup Messages("lead_card") :
      log[i].msg.eta = EtaLine(Lead)

\* the same for the user confirmation alone
C25_UserEtaLine ==
  Finalized => \A i \in Messages("final") : log[i].msg.eta = EtaLine(Lead)

\* parse_int has returned log[1].value for the utterance inp.text
Parsed == Returned /\ inp.op = "parse_int"
\* the number words of the text
Numbers(text) == {i \in 1..Len(text) : text[i].w \in DOMAIN RUS_NUMS}

RECURSIVE SumWords(_, _)
\* the sum of the number words of the text from its i-th word on
SumWords(text, i) ==
  IF i > Len(text) THEN 0
  ELSE (IF i \in Numbers(text) THEN RUS_NUMS[text[i].w] ELSE 0)
       + SumWords(text, i + 1)

\* C26: for an utterance with no digit run and some number word, parse_int
\* returns the sum of its number words, whatever their sequence
C26_SumOfWords ==
  Parsed /\ FirstDigits(inp.text) = None /\ Numbers(inp.text) # {}
    => log[1].value = Some(SumWords(inp.text, 1))

\* a tens word or the hundred counts only when a unit or a teen follows it
\* directly, or when it is the last such word and nothing else was counted
Counted(text, i) ==
  LET val == RUS_NUMS[text[i].w]
      next == {j \in Numbers(text) : j > i}
      kept == {j \in Numbers(text) :
                 ~(RUS_NUMS[text[j].w] >= 20 /\ RUS_NUMS[text[j].w] % 10 = 0)}
  IN  \/ i \in kept
      \/ next # {} /\ Min(next) \in kept
      \/ next = {} /\ kept = {}

\* what parse_int returns instead: the sum of the words that count
C26_SumOfCounted ==
  Parsed /\ Numbers(inp.text) # {}
    => log[1].value
         = Some(SumWords([i \in 1..Len(inp.text) |->
                           IF i \in Numbers(inp.text) /\ Counted(inp.text, i)
                             THEN inp.text[i] ELSE W("listov")], 1))

\* the fields of the stored lead data that pass their validators
ValidFields(d) == {k \in AI_KEYS : Valid(d, k)}

\* C27: a turn in which get_state fails and falls back to empty data, while
\* the stored state is collecting, leaves every valid field of the stored
\* lead data in the stored lead data
C27_KeepsStoredFields ==
  [][inp'.op = "text" /\ ~inp'.f.get /\ db.state = "collecting" =>
       \A k \in ValidFields(db.data) : Get(db'.data, k) = Get(db.data, k)]_vars

\* such a turn keeps the stored fields when it writes nothing: no write
\* succeeds, or the text is small talk outside a conversation
C27_KeptWithoutWrite ==
  [][/\ inp'.op = "text" /\ ~inp'.f.get /\ db.state = "collecting"
     /\ \/ ~inp'.f.upd /\ ~inp'.f.set
        \/ /\ detect_jump_or_edit(inp'.text).key = None
           /\ Extract(cfg, inp'.text, inp'.lm) = EmptyDict
     => db' = db]_vars

\* C28: with working storage, after every command or utterance a stored
\* state that is not collecting comes with empty stored lead data; so
\* finalization leaves no collected field in the row, and a text handled
\* outside collecting, a correction command included, starts from empty data
C28_EmptyUnlessCollecting ==
  /\ db.state # "collecting" => db.data = EmptyDict
  /\ Turn /\ Row.state # "collecting" => Row.data = EmptyDict

C28_Witness ==
  /\ Turn /\ Finalized
  /\ Row.state = "collecting" /\ ValidFields(Row.data) # {}
  /\ db.row /\ db.state = "completed" /\ db.data = EmptyDict

\* C29: while no correction command has been handled for the lead and the
\* stored state is collecting, every field below the stored expected_index
\* passes its validator
C29_ValidBelowIndex ==
  db.state = "collecting" /\ ncorr = 0 =>
    \A i \in 0..(GetOr(db.data, "_idx", 0) - 1) :
      Valid(db.data, FIELDS[i + 1].key)

C29_Witness ==
  /\ Turn /\ ncorr = 0 /\ nfree > 0
  /\ Row.state = "collecting" /\ db.state = "collecting"
  /\ Messages("accepted_more") # {}
  /\ GetOr(db.data, "_idx", 0) > IndexOf("pages_a4")
  /\ GetOr(db.data, "_idx", 0) > GetOr(Row.data, "_idx", 0) + 1

\* the requests whose update was given to the handlers
Dispatches(u) ==
  {r \in DOMAIN requests : requests[r].update_id = u /\ requests[r].dispatched}

\* C30: with working storage every update_id is dispatched to the handlers
\* at most once, however the requests that carry it interleave, and it is
\* in processed_updates when it is dispatched
C30_DispatchedOnce ==
  \A u \in UpdateIds :
    /\ Cardinality(Dispatches(u)) <= 1
    /\ Dispatches(u) # {} => u \in processed_updates

\* an update is marked before it is dispatched, whether the dispatch fails
\* or not
C30_MarkedBeforeDispatch ==
  \A r \in DOMAIN requests :
    requests[r].pc = "process_new_updates" \/ requests[r].dispatched
      => requests[r].update_id \in processed_updates

\* a request that checks an update already marked returns without a
\* dispatch, so a failed dispatch is not retried by a later delivery
C30_MarkedIsSkipped ==
  [][\A r \in DOMAIN requests :
       /\ requests[r].pc = "is_update_processed"
       /\ requests'[r].pc # "is_update_processed"
       /\ requests[r].update_id \in processed_updates
       => requests'[r].pc = "return" /\ ~requests'[r].dispatched]_vars

=============================================================================
